---- MODULE Spec2Model ----
(***************************************************************************)
(* The SUMMARY.md parser (src/src/book/summary.rs), the book loader        *)
(* (src/src/book/book.rs) and the render pass over the book                *)
(* (src/src/renderer/hbs_renderer.rs) as one state machine.                *)
(*                                                                         *)
(* Strings are sequences of tokens (a token is one or more characters that *)
(* no modelled operation splits); the empty string is << >>.  Option<T> is *)
(* a sequence of length at most one: None is << >>, Some(x) is <<x>>.      *)
(***************************************************************************)
EXTENDS Integers, Sequences, FiniteSets, TLC

VARIABLES
    src,                \* SummaryParser.src, as its sequence of bytes
    events,             \* what the pulldown OffsetIter yields for src: (event, range.start)
    stream,             \* SummaryParser.stream: the number of events taken from the iterator
    offset,             \* SummaryParser.offset
    back,               \* SummaryParser.back: Option<Event>
    pc,                 \* the function whose loop runs next, or the outcome
    title,              \* parse: title
    prefix_chapters,    \* parse: prefix_chapters (parse_affix: items)
    numbered_chapters,  \* parse: numbered_chapters
    suffix_chapters,    \* parse: suffix_chapters (parse_affix: items)
    parts,              \* parse_parts: parts
    root_items,         \* parse_parts: root_items
    part_title,         \* parse_parts: title
    items,              \* parse_numbered: items
    first,              \* parse_numbered: first
    other_tag,          \* parse_numbered: other_tag of the skipping loop
    skip_start,         \* parse_numbered: the stream position of the start tag being skipped
    levels,             \* the active parse_nested_numbered calls, outermost first: parent, items
    summary,            \* Option<Summary>: the Ok value of parse_summary
    err,                \* Option<parse error>: the Err value of parse_summary
    disk0,              \* the files the summary links, as load_book found them: path -> file
    disk,               \* the same files when load_book_from_disk runs; both are << >>
                        \* before load_book and again once the render pass has begun
    opened,             \* the chapter files load_book_from_disk has opened, in order
    book,               \* Option<Book>: the Ok value of load_book_from_disk
    load_err,           \* Option<error>: the Err value of load_book_from_disk
    mutated,            \* Option: the book after Book::for_each_mut(func), with func and
                        \* the items func was called on, in order
    queue,              \* BookItems.items of the iterator of the render pass
    is_index,           \* render: is_index
    page_break,         \* html_config.print.page_break
    written,            \* the files written below the destination, in order
    print_content,      \* render: print_content, as the pieces pushed to it
    md_events,          \* render_markdown_with_path: the events the Markdown parser yields
    md_path,            \* render_markdown_with_path: path, Option<&Path>
    cleaned,            \* the events clean_codeblock_headers has returned, in order
    adjusted,           \* the events adjust_links has returned, in order
    wrapped,            \* what wrap_tables has returned, in order: one or two events each
    transpiled,         \* how many events the loop of render_markdown_with_path has taken
    parsed_str,         \* render_markdown_with_path: parsed_str
    current_tag,        \* render_markdown_with_path: current_tag
    tag_started,        \* render_markdown_with_path: tag_started
    tag_parsed_string,  \* render_markdown_with_path: tag_parsed_string
    rendered_docsite,   \* render_markdown_with_path: rendered_docsite
    overflow_checks,    \* whether the build traps integer overflow (debug) or wraps (release)
    tl_s,               \* take_lines: s, as its sequence of characters
    tl_range,           \* take_lines: range, as its start bound and its end bound
    tl_out,             \* Option: what take_lines(s, range) has returned, or its panic
    id_counter,         \* unique_id_from_content: id_counter, HashMap<String, usize>
    id_calls,           \* the contents unique_id_from_content has been called with, in order
    id_returned,        \* the IDs unique_id_from_content has returned, in order
    returned,           \* Option: what cmd::build::execute has returned to main
    stderr,             \* the lines the process has logged, in order
    runs,               \* the calls of parse_summary that have returned: text and result
    config,             \* Option: the Config determine_preprocessors is called with
    preprocessor_names, \* determine_preprocessors: the TopologicalSort, name -> Dependency
    table_iter,         \* how many entries of the preprocessor table have been iterated
    preprocessors,      \* determine_preprocessors: preprocessors, as their names
    determined          \* Option: what determine_preprocessors has returned

parserVars == <<src, events, stream, offset, back, pc, title, prefix_chapters,
                numbered_chapters, suffix_chapters, parts, root_items, part_title,
                items, first, other_tag, skip_start, levels, summary, err>>

bookVars == <<disk0, disk, opened, book, load_err, mutated>>
renderVars == <<queue, is_index, page_break, written, print_content>>

mdVars == <<md_events, md_path, cleaned, adjusted, wrapped, transpiled, parsed_str,
           current_tag, tag_started, tag_parsed_string, rendered_docsite>>

\* the locals of the loop of render_markdown_with_path
loopVars == <<transpiled, parsed_str, current_tag, tag_started, tag_parsed_string,
             rendered_docsite>>

tlVars == <<overflow_checks, tl_s, tl_range, tl_out>>

idVars == <<id_counter, id_calls, id_returned>>

mainVars == <<returned, stderr>>

preVars == <<config, preprocessor_names, table_iter, preprocessors, determined>>

utilVars == <<tlVars, idVars, mainVars, runs, preVars>>

vars == <<parserVars, bookVars, renderVars, mdVars, utilVars>>

----------------------------------------------------------------------------
(* Bounds of the model *)

MaxLen == 4         \* longest stream of arbitrary (possibly unbalanced) events
MaxChunks == 3      \* most Markdown blocks in a generated document
MaxSrcLen == 3      \* longest source text, in characters, of the location inputs

----------------------------------------------------------------------------
(* Option and sequence helpers *)

None == << >>
Some(x) == <<x>>
IsSome(o) == o # << >>
Unwrap(o) == o[1]

RECURSIVE Concat(_)
Concat(ss) == IF ss = << >> THEN << >> ELSE Head(ss) \o Concat(Tail(ss))

----------------------------------------------------------------------------
(* pulldown_cmark events: Event::Start(tag), Event::End(tag), Event::Text,  *)
(* Event::Code, Event::Html, Event::SoftBreak, Event::Rule.  s is the text  *)
(* of a Text/Code/Html event and the destination of a Link tag.             *)

Ev(type, tag, s) == [type |-> type, tag |-> tag, s |-> s, off |-> 0]

StartList == Ev("Start", "List", << >>)
EndList == Ev("End", "List", << >>)
StartItem == Ev("Start", "Item", << >>)
EndItem == Ev("End", "Item", << >>)
StartPara == Ev("Start", "Paragraph", << >>)
EndPara == Ev("End", "Paragraph", << >>)
StartH1 == Ev("Start", "H1", << >>)
EndH1 == Ev("End", "H1", << >>)
StartQuote == Ev("Start", "BlockQuote", << >>)
EndQuote == Ev("End", "BlockQuote", << >>)
StartLink(href) == Ev("Start", "Link", href)
EndLink(href) == Ev("End", "Link", href)
Text(s) == Ev("Text", "", s)
Code(s) == Ev("Code", "", s)
Html(s) == Ev("Html", "", s)
SoftBreak == Ev("SoftBreak", "", << >>)
Rule == Ev("Rule", "", << >>)

IsStart(ev, tag) == ev.type = "Start" /\ ev.tag = tag
IsEnd(ev, tag) == ev.type = "End" /\ ev.tag = tag

\* Event::End(other_tag.clone()) == event: the same tag with the same payload
SameTag(ev, tag) == ev.tag = tag.tag /\ ev.s = tag.s

----------------------------------------------------------------------------
(* The Summary tree *)

SectionNumberDefault == << >>

\* the decimal digits of a natural number
RECURSIVE Decimal(_)
Decimal(n) ==
    LET digit == <<"0", "1", "2", "3", "4", "5", "6", "7", "8", "9">>
    IN  IF n < 10 THEN <<digit[n + 1]>> ELSE Decimal(n \div 10) \o <<digit[(n % 10) + 1]>>

\* Display for SectionNumber: "0" when empty, else every component followed by "."
SectionNumberDisplay(number) ==
    IF number = << >> THEN <<"0">>
    ELSE Concat([i \in 1..Len(number) |-> Decimal(number[i]) \o <<".">>])

Link(name, location, number, nested_items) ==
    [kind |-> "Link", name |-> name, location |-> location, number |-> number,
     nested_items |-> nested_items]
Separator ==
    [kind |-> "Separator", name |-> << >>, location |-> None, number |-> None,
     nested_items |-> << >>]
PartTitle(text) ==
    [kind |-> "PartTitle", name |-> text, location |-> None, number |-> None,
     nested_items |-> << >>]

Summary(t, prefix, numbered, suffix) ==
    [title |-> t, prefix_chapters |-> prefix, numbered_chapters |-> numbered,
     suffix_chapters |-> suffix]

----------------------------------------------------------------------------
(* The pure helpers of the parser *)

\* one event of stringify_events: the text it contributes
StringifyEvent(ev) ==
    IF ev.type \in {"Text", "Code"} THEN ev.s
    ELSE IF ev.type = "SoftBreak" THEN <<" ">>
    ELSE << >>

RECURSIVE stringify_events(_)
stringify_events(evs) ==
    IF evs = << >> THEN << >>
    ELSE StringifyEvent(Head(evs)) \o stringify_events(Tail(evs))

\* collect_events!(self.stream, end tag): read straight from the iterator, from
\* position n on, up to and including the first End(tag), or to the end of the
\* stream.  Yields the events before the delimiter and the new position.
\* collect_events that never meets its delimiter
collect_events_to_the_end(evs, n, tag) ==
    [events |-> SubSeq(evs, n + 1, Len(evs)), stream |-> Len(evs)]

RECURSIVE collect_events(_, _, _)
collect_events(evs, n, tag) ==
    IF n >= Len(evs) THEN [events |-> << >>, stream |-> n]
    ELSE IF IsEnd(evs[n + 1], tag) THEN [events |-> << >>, stream |-> n + 1]
    ELSE LET rest == collect_events(evs, n + 1, tag)
         IN  [events |-> <<evs[n + 1]>> \o rest.events, stream |-> rest.stream]

\* href.replace("%20", " ")
Unescape(href) == [i \in 1..Len(href) |-> IF href[i] = "%20" THEN " " ELSE href[i]]

\* parse_link once Start(Link) has been read and n events have been taken
parse_link(evs, n, href) ==
    LET unescaped == Unescape(href)
        link_content == collect_events(evs, n, "Link")
        name == stringify_events(link_content.events)
        path == IF unescaped = << >> THEN None ELSE Some(unescaped)
    IN  [link |-> Link(name, path, None, << >>), stream |-> link_content.stream]

\* update_section_numbers indexes number.0[level]: out of bounds (a panic) when a
\* numbered link's number has no component at that level
RECURSIVE UpdatePanics(_, _)
UpdatePanics(sections, level) ==
    \E i \in 1..Len(sections) :
        /\ sections[i].kind = "Link"
        /\ \/ IsSome(sections[i].number) /\ Len(Unwrap(sections[i].number)) <= level
           \/ UpdatePanics(sections[i].nested_items, level)

\* update_section_numbers that leaves the numbers as they are: every list numbered from 1
update_section_numbers_unchanged(sections, level, by) == sections

RECURSIVE update_section_numbers(_, _, _)
update_section_numbers(sections, level, by) ==
    [i \in 1..Len(sections) |->
        IF sections[i].kind = "Link"
        THEN [sections[i] EXCEPT
                !.number = IF IsSome(@)
                           THEN Some([Unwrap(@) EXCEPT ![level + 1] = @ + by])
                           ELSE @,
                !.nested_items = update_section_numbers(@, level, by)]
        ELSE sections[i]]

\* get_last_link: the index of the last Link of the list, None when it has none
get_last_link_none(links) == None

get_last_link(links) ==
    LET linkIdx == {i \in 1..Len(links) : links[i].kind = "Link"}
    IN  IF linkIdx = {} THEN None
        ELSE Some(CHOOSE i \in linkIdx : \A j \in linkIdx : j <= i)

----------------------------------------------------------------------------
(* Source text and error locations.  A character is "a", a newline or the   *)
(* two-byte "e-acute": the bytes C3 A9.                                     *)

CharBytes(c) == IF c = "e'" THEN <<"C3", "A9">> ELSE <<c>>

RECURSIVE Bytes(_)
Bytes(chars) == IF chars = << >> THEN << >> ELSE CharBytes(Head(chars)) \o Bytes(Tail(chars))

IsContinuation(b) == b = "A9"

\* str::chars().count() of a byte slice that starts and ends on character boundaries
CharCount(bytes) == Cardinality({i \in 1..Len(bytes) : ~IsContinuation(bytes[i])})

\* the byte offsets at which a character (or the end of the text) starts
Boundaries(bytes) == {o \in 0..Len(bytes) : o = Len(bytes) \/ ~IsContinuation(bytes[o + 1])}

current_location(text, off) ==
    LET previous_text == SubSeq(text, 1, off)
        newlines == {i \in 1..Len(previous_text) : previous_text[i] = "\n"}
        line == Cardinality(newlines) + 1
        \* memrchr: the 0-based index of the last newline, unwrap_or(0)
        start_of_line == IF newlines = {} THEN 0
                         ELSE (CHOOSE i \in newlines : \A j \in newlines : j <= i) - 1
        col == CharCount(SubSeq(text, start_of_line + 1, off))
    IN  <<line, col>>

parse_error(text, off, msg) ==
    LET loc == current_location(text, off)
    IN  [line |-> loc[1], col |-> loc[2], msg |-> msg]

----------------------------------------------------------------------------
(* Inputs: SUMMARY texts as the event streams pulldown_cmark yields for     *)
(* them.  Three families: every stream of at most MaxLen arbitrary events   *)
(* (unbalanced tags, early end of stream); documents made of at most        *)
(* MaxChunks well-formed Markdown blocks; and failing streams over every    *)
(* short source text with every placement of the events in it.              *)

\* link destinations; a file name is a stem followed by its extension
Intro == <<"intro", ".md">>
Ch1 == <<"ch1", ".md">>
Ch1a == <<"ch1a", ".md">>
Ch2 == <<"ch2", ".md">>
Spaced == <<"my", "%20", "ch", ".md">>
PrintMd == <<"print", ".md">>
Draft == << >>

LinkEvents(name, href) == <<StartLink(href), Text(name), EndLink(href)>>
TightItem(name, href) == <<StartItem>> \o LinkEvents(name, href) \o <<EndItem>>
LooseItem(name, href) ==
    <<StartItem, StartPara>> \o LinkEvents(name, href) \o <<EndPara, EndItem>>
List(body) == <<StartList>> \o body \o <<EndList>>
Para(body) == <<StartPara>> \o body \o <<EndPara>>
Heading1(text) == <<StartH1, Text(text), EndH1>>

\* '- [Chapter 1](ch1.md)' with '  - [Chapter 1a](ch1a.md)' nested, then '- [Chapter 2](ch2.md)'
NestedList ==
    List(<<StartItem>> \o LinkEvents(<<"Chapter 1">>, Ch1)
         \o List(TightItem(<<"Chapter 1a">>, Ch1a)) \o <<EndItem>>
         \o TightItem(<<"Chapter 2">>, Ch2))

\* '- [A](ch1.md)' with '  - [B](ch2.md)' nested, then '- [C]()'
SmallNestedList ==
    List(<<StartItem>> \o LinkEvents(<<"A">>, Ch1)
         \o List(TightItem(<<"B">>, Ch2)) \o <<EndItem>>
         \o TightItem(<<"C">>, Draft))

\* one item that holds two lists: '- [A](ch1.md)', '  - [B](ch2.md)', '  * [C]()'
TwoListsInItem ==
    List(<<StartItem>> \o LinkEvents(<<"A">>, Ch1)
         \o List(TightItem(<<"B">>, Ch2))
         \o List(TightItem(<<"C">>, Draft)) \o <<EndItem>>)

\* '> > quoted' followed, still inside the outer quote, by '> - [Q](ch2.md)'
QuoteInQuote ==
    <<StartQuote, StartQuote>> \o Para(<<Text(<<"quoted">>)>>) \o <<EndQuote>>
    \o List(TightItem(<<"Q">>, Ch2)) \o <<EndQuote>>

Comment == Html(<<"<!-- c -->">>)

Chunks ==
    { Heading1(<<"Part One">>),
      Para(LinkEvents(<<"Introduction">>, Ch1)),
      Para(LinkEvents(<<"Draft">>, Draft) \o <<SoftBreak>>
           \o <<StartLink(Spaced), Text(<<"My">>), SoftBreak, Code(<<"ch">>), EndLink(Spaced)>>),
      List(LooseItem(<<"Chapter 1">>, Ch1)),
      List(TightItem(<<"Draft">>, Draft) \o TightItem(<<"Print">>, PrintMd)),
      SmallNestedList }

\* the end-to-end scenario of the specification, also after a leading comment
SpecExample ==
    Heading1(<<"Summary">>) \o Para(LinkEvents(<<"Introduction">>, Intro))
    \o Heading1(<<"Part One">>) \o NestedList

\* three levels: '- [A](ch1.md)', '  - [B](ch2.md)', '    - [D](ch1a.md)', '- [C]()'
DeepList ==
    List(<<StartItem>> \o LinkEvents(<<"A">>, Ch1)
         \o List(<<StartItem>> \o LinkEvents(<<"B">>, Ch2)
                 \o List(TightItem(<<"D">>, Ch1a)) \o <<EndItem>>)
         \o <<EndItem>>
         \o TightItem(<<"C">>, Draft))

\* absolute destinations, below the book's source directory /book/src and not:
\* '- [In](/book/src/in.md)' and '- [Out](/etc/out.md)'
Inside == <<"/", "book/src", "/", "in", ".md">>
Outside == <<"/", "etc", "/", "out", ".md">>
InsideList == List(TightItem(<<"Chapter 1">>, Ch1) \o TightItem(<<"In">>, Inside))
OutsideList ==
    List(TightItem(<<"In">>, Inside) \o TightItem(<<"Out">>, Outside)
         \o TightItem(<<"Chapter 1">>, Ch1))

\* a name with angle brackets: '- [1 < 2 > 0](ch1.md)', '  - [B](ch2.md)', '- [C]()'
EscapedList ==
    List(<<StartItem>> \o LinkEvents(<<"1 ", "<", " 2 ", ">", " 0">>, Ch1)
         \o List(TightItem(<<"B">>, Ch2)) \o <<EndItem>>
         \o TightItem(<<"C">>, Draft))

\* a list of links followed by a list whose item is plain text
PlainItemList ==
    List(LooseItem(<<"Chapter 1">>, Ch1)) \o List(<<StartItem, Text(<<"plain">>), EndItem>>)

\* a rule and a part title after a list: '- [A](ch1.md)' with B and the draft C below
\* it, '---', '# Part One', '- [Chapter 1](ch1.md)'
RuledParts ==
    TwoListsInItem \o <<Rule>> \o Heading1(<<"Part One">>)
    \o List(LooseItem(<<"Chapter 1">>, Ch1))

\* a comment and a paragraph without a link before a list
PlainParagraph ==
    <<Comment>> \o Para(<<Text(<<"plain">>)>>) \o List(LooseItem(<<"Chapter 1">>, Ch1))

\* nested block quotes between a part title and a list, and after a list
QuotedParts ==
    Heading1(<<"Part One">>) \o QuoteInQuote \o List(LooseItem(<<"Chapter 1">>, Ch1))
    \o QuoteInQuote \o Para(LinkEvents(<<"Introduction">>, Intro))

\* a part whose list follows a block quote that holds a list itself
QuotedList ==
    Heading1(<<"Part One">>) \o <<StartQuote>> \o List(TightItem(<<"Q">>, Ch2))
    \o <<EndQuote>> \o List(LooseItem(<<"Chapter 1">>, Ch1))

\* a draft link in the prefix and a draft link nested below a numbered link
DraftsAround == Para(LinkEvents(<<"Draft">>, Draft)) \o TwoListsInItem

\* a chapter index.md behind another chapter: '- [Chapter 1](ch1.md)', '- [Index](index.md)'
IndexMd == <<"index", ".md">>
IndexLater == List(TightItem(<<"Chapter 1">>, Ch1) \o TightItem(<<"Index">>, IndexMd))

Scenarios ==
    {SpecExample, <<Comment>> \o SpecExample, DeepList, InsideList, OutsideList,
     EscapedList, PlainItemList, RuledParts, PlainParagraph, QuotedParts, TwoListsInItem,
     QuoteInQuote, DraftsAround, QuotedList, IndexLater}

Alphabet ==
    { StartList, EndList, StartItem, StartPara, StartH1, EndH1, StartLink(Ch1),
      EndLink(Ch1), Rule }

\* streams on which parsing fails: at a list item, at the end of the stream
\* inside a list item, and at a list in the suffix
FailingStreams ==
    { <<StartList, StartItem, Text(<<"t">>)>>,
      <<StartList, StartItem>>,
      <<StartList, EndList, StartPara, StartList>> }

DefaultText == Bytes(<<"a", "\n", "e'", "a", "\n", "a">>)

WithOffsets(evs, offs) == [i \in 1..Len(evs) |-> [evs[i] EXCEPT !.off = offs[i]]]

\* the character boundaries of the default text, in increasing order
DefaultBoundaries ==
    LET B == Boundaries(DefaultText)
    IN  [k \in 1..Cardinality(B) |-> CHOOSE o \in B : Cardinality({b \in B : b < o}) = k - 1]

\* the k-th event starts at the k-th character of the default text, the later
\* ones at its end
InOrder(evs) ==
    [i \in 1..Len(evs) |->
        [evs[i] EXCEPT !.off = IF i <= Len(DefaultBoundaries) THEN DefaultBoundaries[i]
                               ELSE Len(DefaultText)]]

Placements(n, text) ==
    {f \in [1..n -> Boundaries(text)] : \A i \in 1..n : \A j \in i..n : f[i] <= f[j]}

\* the source text and the events of the three families of inputs
RawInput(text, evs) ==
    \E k \in 0..MaxLen : \E s \in [1..k -> Alphabet] :
        text = DefaultText /\ evs = InOrder(s)
DocumentInput(text, evs) ==
    \/ \E k \in 0..MaxChunks : \E cs \in [1..k -> Chunks] :
            text = DefaultText /\ evs = InOrder(Concat(cs))
    \/ \E s \in Scenarios : text = DefaultText /\ evs = InOrder(s)
FailingInput(text, evs) ==
    \E s \in FailingStreams : \E k \in 0..MaxSrcLen : \E cs \in [1..k -> {"a", "\n", "e'"}] :
        \E f \in Placements(Len(s), Bytes(cs)) :
            text = Bytes(cs) /\ evs = WithOffsets(s, f)

----------------------------------------------------------------------------
(* The parser as a state machine: one action per iteration of a loop        *)

\* render_markdown_with_path is not running
MdAtRest ==
    /\ md_events = << >>
    /\ md_path = None
    /\ cleaned = << >>
    /\ adjusted = << >>
    /\ wrapped = << >>
    /\ transpiled = 0
    /\ parsed_str = << >>
    /\ current_tag = << >>
    /\ tag_started = FALSE
    /\ tag_parsed_string = << >>
    /\ rendered_docsite = << >>

\* take_lines has not been called
TlAtRest ==
    /\ overflow_checks = TRUE
    /\ tl_s = << >>
    /\ tl_range = << >>
    /\ tl_out = None

\* unique_id_from_content has not been called
IdAtRest ==
    /\ id_counter = << >>
    /\ id_calls = << >>
    /\ id_returned = << >>

\* the build command has not returned, nothing is logged
MainAtRest ==
    /\ returned = None
    /\ stderr = << >>

\* determine_preprocessors has not been called
PreAtRest ==
    /\ config = None
    /\ preprocessor_names = << >>
    /\ table_iter = 0
    /\ preprocessors = << >>
    /\ determined = None

UtilAtRest == TlAtRest /\ IdAtRest /\ MainAtRest /\ runs = << >> /\ PreAtRest

Init ==
    /\ \/ RawInput(src, events)
       \/ DocumentInput(src, events)
       \/ FailingInput(src, events)
    /\ stream = 0
    /\ offset = 0
    /\ back = None
    /\ pc = "parse_title"
    /\ title = None
    /\ prefix_chapters = << >>
    /\ numbered_chapters = << >>
    /\ suffix_chapters = << >>
    /\ parts = << >>
    /\ root_items = 0
    /\ part_title = None
    /\ items = << >>
    /\ first = TRUE
    /\ other_tag = None
    /\ skip_start = 0
    /\ levels = << >>
    /\ summary = None
    /\ err = None
    /\ disk0 = << >>
    /\ disk = << >>
    /\ opened = << >>
    /\ book = None
    /\ load_err = None
    /\ mutated = None
    /\ queue = << >>
    /\ is_index = TRUE
    /\ page_break = TRUE
    /\ written = << >>
    /\ print_content = << >>
    /\ MdAtRest
    /\ UtilAtRest

\* the ways the program aborts instead of returning: a failed assert!, expect or
\* slice index
BackPanic == "panic: assertion failed: self.back.is_none()"
NumberPanic == "panic: All numbered chapters have numbers"
IndexPanic == "panic: index out of bounds"
InsideBookPanic == "panic: Chapters are always inside a book"
ParentPanic == "panic: path_to_root"

\* next_event that takes the next event of the stream whatever the slot holds
next_event_of_stream ==
    IF stream < Len(events)
    THEN [ev |-> Some(events[stream + 1]), stream |-> stream + 1,
          offset |-> events[stream + 1].off]
    ELSE [ev |-> None, stream |-> stream, offset |-> offset]

\* next_event: the pushed-back event if there is one, else the next of the stream,
\* whose start becomes the offset.  The slot is empty afterwards.
next_event ==
    IF IsSome(back) THEN [ev |-> back, stream |-> stream, offset |-> offset]
    ELSE IF stream < Len(events)
    THEN [ev |-> Some(events[stream + 1]), stream |-> stream + 1,
          offset |-> events[stream + 1].off]
    ELSE [ev |-> None, stream |-> stream, offset |-> offset]

\* back(ev) on a slot: assert!(self.back.is_none()), then fill it; the marker of
\* the failed assertion in the slot stands for the aborted program
back_(slot, ev) ==
    IF IsSome(slot)
    THEN Some([type |-> "Panic", tag |-> BackPanic, s |-> << >>, off |-> 0])
    ELSE Some(ev)

\* every event that is read is pushed back
ReadAndPushBack(n, pushed) ==
    /\ stream' = n.stream
    /\ offset' = n.offset
    /\ back' = IF IsSome(n.ev) THEN back_(None, Unwrap(n.ev)) ELSE None

\* the state after next_event and, where the code calls it, back(ev)
Read(n, pushed) ==
    /\ stream' = n.stream
    /\ offset' = n.offset
    /\ back' = IF pushed THEN back_(None, Unwrap(n.ev)) ELSE None

\* bail!(self.parse_error(msg)), propagated by `?` out of parse
Bail(n, msg) ==
    /\ Read(n, FALSE)
    /\ pc' = "Err"
    /\ err' = Some(parse_error(src, n.offset, msg))

SuffixError == "Suffix chapters cannot be followed by a list"
ItemError == "The link items for nested chapters must only contain a hyperlink"
LastLinkError == "Unable to get last link because the list of SummaryItems doesn't contain any Links"

\* parse_affix that forgets the top-level heading
EndsAffixListOnly(ev) == IsStart(ev, "List")

\* parse_affix: the events that end the prefix and are an error in the suffix
EndsAffix(ev) == IsStart(ev, "List") \/ IsStart(ev, "H1")

\* parse_nested_item that skips the start of any tag but a link
ItemSkipsAnyStart(ev) == ev.type = "Start" /\ ev.tag # "Link"

\* parse_nested_item: the events skipped before the link
ItemSkips(ev) == IsStart(ev, "Paragraph")

\* parse_nested_item that forgets to number the link
NumberedLinkUnnumbered(link, parent, num_existing_items) == link

\* parse_nested_item: the link of an item, numbered after its parent and the
\* items already at its level
NumberedLink(link, parent, num_existing_items) ==
    [link EXCEPT !.number = Some(Append(parent, num_existing_items + 1))]

\* parse_title: one iteration
ParseTitle ==
    /\ pc = "parse_title"
    /\ LET n == next_event
       IN  IF n.ev = None
           THEN /\ Read(n, FALSE)
                /\ title' = None
                /\ pc' = "parse_affix_prefix"
           ELSE LET ev == Unwrap(n.ev)
                IN  IF IsStart(ev, "H1")
                    THEN LET tags == collect_events(events, n.stream, "H1")
                         IN  /\ stream' = tags.stream
                             /\ offset' = n.offset
                             /\ back' = None
                             /\ title' = Some(stringify_events(tags.events))
                             /\ pc' = "parse_affix_prefix"
                    ELSE IF ev.type = "Html"
                    THEN /\ Read(n, FALSE)
                         /\ UNCHANGED <<title, pc>>
                    ELSE /\ Read(n, TRUE)
                         /\ title' = None
                         /\ pc' = "parse_affix_prefix"
    /\ UNCHANGED <<src, events, prefix_chapters, numbered_chapters, suffix_chapters,
                   parts, root_items, part_title, items, first, other_tag, skip_start, levels,
                   summary, err>>
    /\ UNCHANGED <<bookVars, renderVars, mdVars, utilVars>>

\* parse_affix(is_prefix): one iteration; the end of the suffix ends parse
ParseAffix(is_prefix) ==
    /\ pc = IF is_prefix THEN "parse_affix_prefix" ELSE "parse_affix_suffix"
    /\ LET n == next_event
           cur == IF is_prefix THEN prefix_chapters ELSE suffix_chapters
           Continue(new) ==
               /\ prefix_chapters' = IF is_prefix THEN new ELSE prefix_chapters
               /\ suffix_chapters' = IF is_prefix THEN suffix_chapters ELSE new
               /\ UNCHANGED <<pc, summary, err>>
           Finish ==
               /\ UNCHANGED <<prefix_chapters, suffix_chapters, err>>
               /\ IF is_prefix
                  THEN pc' = "parse_parts" /\ UNCHANGED summary
                  ELSE /\ pc' = "Ok"
                       /\ summary' = Some(Summary(title, prefix_chapters,
                                                  numbered_chapters, cur))
       IN  IF n.ev = None
           THEN Read(n, FALSE) /\ Finish
           ELSE LET ev == Unwrap(n.ev)
                IN  IF EndsAffix(ev)
                    THEN IF is_prefix
                         THEN Read(n, TRUE) /\ Finish
                         ELSE /\ Bail(n, SuffixError)
                              /\ UNCHANGED <<prefix_chapters, suffix_chapters, summary>>
                    ELSE IF IsStart(ev, "Link")
                    THEN LET l == parse_link(events, n.stream, ev.s)
                         IN  /\ stream' = l.stream
                             /\ offset' = n.offset
                             /\ back' = None
                             /\ Continue(Append(cur, l.link))
                    ELSE IF ev.type = "Rule"
                    THEN Read(n, FALSE) /\ Continue(Append(cur, Separator))
                    ELSE Read(n, FALSE) /\ Continue(cur)
    /\ UNCHANGED <<src, events, title, numbered_chapters, parts, root_items, part_title,
                   items, first, other_tag, skip_start, levels>>
    /\ UNCHANGED <<bookVars, renderVars, mdVars, utilVars>>

\* parse_parts: the head of one iteration, up to the call of parse_numbered
ParseParts ==
    /\ pc = "parse_parts"
    /\ LET n == next_event
           Break == /\ numbered_chapters' = parts
                    /\ pc' = "parse_affix_suffix"
                    /\ UNCHANGED <<part_title, items, first>>
           Numbered(t) == /\ part_title' = t
                          /\ items' = << >>
                          /\ first' = TRUE
                          /\ pc' = "parse_numbered"
                          /\ UNCHANGED numbered_chapters
       IN  IF n.ev = None
           THEN Read(n, FALSE) /\ Break
           ELSE LET ev == Unwrap(n.ev)
                IN  IF IsStart(ev, "Paragraph")
                    THEN Read(n, TRUE) /\ Break
                    ELSE IF IsStart(ev, "H1")
                    THEN LET tags == collect_events(events, n.stream, "H1")
                         IN  /\ stream' = tags.stream
                             /\ offset' = n.offset
                             /\ back' = None
                             /\ Numbered(Some(stringify_events(tags.events)))
                    ELSE Read(n, TRUE) /\ Numbered(None)
    /\ UNCHANGED <<src, events, title, prefix_chapters, suffix_chapters, parts,
                   root_items, other_tag, skip_start, levels, summary, err>>
    /\ UNCHANGED <<bookVars, renderVars, mdVars, utilVars>>

\* parse_parts that forgets the part title
PartsAfterUntitled(chapters) == parts \o chapters

\* parse_parts after parse_numbered has returned Ok(chapters): the part title,
\* if any, then the chapters
PartsAfter(chapters) ==
    parts \o (IF IsSome(part_title) THEN <<PartTitle(Unwrap(part_title))>> ELSE << >>)
          \o chapters

\* parse_numbered: one iteration; a break returns into parse_parts
ParseNumbered ==
    /\ pc = "parse_numbered"
    /\ LET n == next_event
           Return == /\ parts' = PartsAfter(items)
                     /\ pc' = "parse_parts"
                     /\ UNCHANGED <<items, first, other_tag, skip_start, levels>>
           Continue(new) == /\ items' = new
                            /\ first' = FALSE
                            /\ UNCHANGED <<parts, pc, other_tag, skip_start, levels>>
       IN  IF n.ev = None
           THEN Read(n, FALSE) /\ Return
           ELSE LET ev == Unwrap(n.ev)
                IN  IF IsStart(ev, "Paragraph")
                    THEN IF ~first
                         THEN Read(n, TRUE) /\ Return
                         ELSE Read(n, FALSE) /\ Continue(items)
                    ELSE IF IsStart(ev, "H1")
                    THEN Read(n, TRUE) /\ Return
                    ELSE IF IsStart(ev, "List")
                    THEN /\ Read(n, TRUE)
                         /\ levels' = <<[parent |-> SectionNumberDefault,
                                         items |-> << >>, last_item |-> 0]>>
                         /\ pc' = "parse_nested_numbered"
                         /\ UNCHANGED <<parts, items, first, other_tag, skip_start>>
                    ELSE IF ev.type = "Start"
                    THEN /\ Read(n, FALSE)
                         /\ other_tag' = Some(ev)
                         /\ skip_start' = n.stream
                         /\ pc' = "skip"
                         /\ UNCHANGED <<parts, items, first, levels>>
                    ELSE IF ev.type = "Rule"
                    THEN Read(n, FALSE) /\ Continue(Append(items, Separator))
                    ELSE Read(n, FALSE) /\ Continue(items)
    /\ UNCHANGED <<src, events, title, prefix_chapters, numbered_chapters,
                   suffix_chapters, root_items, part_title, summary, err>>
    /\ UNCHANGED <<bookVars, renderVars, mdVars, utilVars>>

\* parse_numbered, the loop that skips the contents of another tag: one iteration
SkipTag ==
    /\ pc = "skip"
    /\ LET n == next_event
       IN  /\ Read(n, FALSE)
           /\ IF n.ev = None \/ (Unwrap(n.ev).type = "End"
                                 /\ SameTag(Unwrap(n.ev), Unwrap(other_tag)))
              THEN pc' = "parse_numbered" /\ first' = FALSE /\ other_tag' = None /\ skip_start' = 0
              ELSE UNCHANGED <<pc, first, other_tag, skip_start>>
    /\ UNCHANGED <<src, events, title, prefix_chapters, numbered_chapters,
                   suffix_chapters, parts, root_items, part_title, items, levels,
                   summary, err>>
    /\ UNCHANGED <<bookVars, renderVars, mdVars, utilVars>>

\* parse_nested_numbered: one iteration of the innermost active call.  Its break
\* returns the items to the caller: an outer parse_nested_numbered, which stores
\* them as the nested_items of last_item, or parse_numbered, which renumbers
\* them, counts them and extends its items.
ParseNestedNumbered ==
    /\ pc = "parse_nested_numbered"
    /\ LET n == next_event
           depth == Len(levels)
           top == levels[depth]
           Continue == UNCHANGED <<pc, levels, items, root_items, first, err>>
           Break ==
               IF depth > 1
               THEN /\ levels' = [SubSeq(levels, 1, depth - 1) EXCEPT
                                    ![depth - 1].items[top.last_item].nested_items =
                                        top.items]
                    /\ UNCHANGED <<pc, items, root_items, first, err>>
               ELSE IF UpdatePanics(top.items, 0)
               THEN /\ pc' = IndexPanic
                    /\ UNCHANGED <<levels, items, root_items, first, err>>
               ELSE /\ items' = items \o update_section_numbers(top.items, 0, root_items)
                    /\ root_items' = root_items + Len(top.items)
                    /\ first' = FALSE
                    /\ levels' = << >>
                    /\ pc' = "parse_numbered"
                    /\ UNCHANGED err
       IN  /\ Read(n, FALSE)
           /\ IF n.ev = None
              THEN Break
              ELSE LET ev == Unwrap(n.ev)
                   IN  IF IsStart(ev, "Item")
                       THEN /\ pc' = "parse_nested_item"
                            /\ UNCHANGED <<levels, items, root_items, first, err>>
                       ELSE IF IsStart(ev, "List")
                       THEN IF top.items = << >>
                            THEN Continue
                            ELSE LET last == get_last_link(top.items)
                                 IN  IF last = None
                                     THEN /\ pc' = "Err"
                                          /\ err' = Some([line |-> 0, col |-> 0,
                                                          msg |-> LastLinkError])
                                          /\ UNCHANGED <<levels, items, root_items, first>>
                                     ELSE IF top.items[Unwrap(last)].number = None
                                     THEN /\ pc' = NumberPanic
                                          /\ UNCHANGED <<levels, items, root_items,
                                                         first, err>>
                                     ELSE /\ levels' = Append(levels,
                                               [parent |-> Unwrap(top.items[Unwrap(last)].number),
                                                items |-> << >>,
                                                last_item |-> Unwrap(last)])
                                          /\ UNCHANGED <<pc, items, root_items, first, err>>
                       ELSE IF IsEnd(ev, "List")
                       THEN Break
                       ELSE Continue
    /\ UNCHANGED <<src, events, title, prefix_chapters, numbered_chapters,
                   suffix_chapters, parts, part_title, other_tag, skip_start, summary>>
    /\ UNCHANGED <<bookVars, renderVars, mdVars, utilVars>>

\* parse_nested_item(parent, num_existing_items): one iteration
ParseNestedItem ==
    /\ pc = "parse_nested_item"
    /\ LET n == next_event
           depth == Len(levels)
           top == levels[depth]
       IN  IF n.ev # None /\ ItemSkips(Unwrap(n.ev))
           THEN Read(n, FALSE) /\ UNCHANGED <<pc, levels, err>>
           ELSE IF n.ev # None /\ IsStart(Unwrap(n.ev), "Link")
           THEN LET l == parse_link(events, n.stream, Unwrap(n.ev).s)
                    link == NumberedLink(l.link, top.parent, Len(top.items))
                IN  /\ stream' = l.stream
                    /\ offset' = n.offset
                    /\ back' = None
                    /\ levels' = [levels EXCEPT ![depth].items = Append(@, link)]
                    /\ pc' = "parse_nested_numbered"
                    /\ UNCHANGED err
           ELSE Bail(n, ItemError) /\ UNCHANGED levels
    /\ UNCHANGED <<src, events, title, prefix_chapters, numbered_chapters,
                   suffix_chapters, parts, root_items, part_title, items, first,
                   other_tag, skip_start, summary>>
    /\ UNCHANGED <<bookVars, renderVars, mdVars, utilVars>>

----------------------------------------------------------------------------
(* The book loader (src/src/book/book.rs)                                   *)

Chapter(name, content, number, sub_items, path, source_path, parent_names) ==
    [kind |-> "Chapter", name |-> name, content |-> content, number |-> number,
     sub_items |-> sub_items, path |-> path, source_path |-> source_path,
     parent_names |-> parent_names]
BookSeparator ==
    [kind |-> "Separator", name |-> << >>, content |-> << >>, number |-> None,
     sub_items |-> << >>, path |-> None, source_path |-> None, parent_names |-> << >>]
BookPartTitle(text) ==
    [kind |-> "PartTitle", name |-> text, content |-> << >>, number |-> None,
     sub_items |-> << >>, path |-> None, source_path |-> None, parent_names |-> << >>]

\* Chapter::new
ChapterNew(name, content, p, parent_names) ==
    Chapter(name, content, None, << >>, Some(p), Some(p), parent_names)

\* Chapter::new_draft that gives the draft an empty path
ChapterNewDraftWithPath(name, parent_names) ==
    Chapter(name, << >>, None, << >>, Some(<< >>), None, parent_names)

\* Chapter::new_draft
ChapterNewDraft(name, parent_names) ==
    Chapter(name, << >>, None, << >>, None, None, parent_names)

is_draft_chapter(ch) == ch.path = None

\* the book's source directory, and the Path operations of load_chapter
SrcDir == <<"/", "book/src">>
is_absolute(p) == p # << >> /\ p[1] = "/"
join(base, p) == IF is_absolute(p) THEN p ELSE base \o <<"/">> \o p
strip_prefix(p, base) ==
    IF p = base THEN Some(<< >>)
    ELSE IF /\ Len(p) > Len(base) + 1
            /\ SubSeq(p, 1, Len(base)) = base
            /\ p[Len(base) + 1] = "/"
    THEN Some(SubSeq(p, Len(base) + 2, Len(p)))
    ELSE None

\* the kinds of file a path can name, and what reading one yields
FileKinds == {"missing", "unreadable", "text", "bom"}
File(kind) ==
    [kind |-> kind,
     content |-> IF kind = "bom" THEN <<"EFBBBF", "text">>
                 ELSE IF kind = "text" THEN <<"text">> ELSE << >>]
FileKind(d, location) == IF location \in DOMAIN d THEN d[location].kind ELSE "missing"
FileContent(d, location) == d[location].content

\* content.replace_range(..3, "") when the content starts with the byte-order mark
StripBom(content) ==
    IF content # << >> /\ content[1] = "EFBBBF" THEN Tail(content) ELSE content

LoadOk(val, files) == [status |-> "Ok", val |-> val, opened |-> files, err |-> None]
LoadErr(msg, files) == [status |-> "Err", val |-> << >>, opened |-> files, err |-> Some(msg)]
LoadPanic(files) == [status |-> InsideBookPanic, val |-> << >>, opened |-> files, err |-> None]

\* load_chapter that hands its own parent_names down to the sub-items
sub_item_parents_unextended(parent_names, name) == parent_names

\* load_chapter: sub_item_parents, the parent_names with link.name pushed
sub_item_parents(parent_names, name) == Append(parent_names, name)

RECURSIVE load_items(_, _, _)
RECURSIVE load_chapter(_, _, _)

\* load_summary_item; val is the one BookItem
load_summary_item(item, parent_names, d) ==
    IF item.kind = "Separator" THEN LoadOk(BookSeparator, << >>)
    ELSE IF item.kind = "Link" THEN load_chapter(item, parent_names, d)
    ELSE LoadOk(BookPartTitle(item.name), << >>)

\* the loops over summary items, leaving out the items that fail
load_items_partial(its, parent_names, d) ==
    IF its = << >> THEN LoadOk(<< >>, << >>)
    ELSE LET h == load_summary_item(Head(its), parent_names, d)
             r == load_items(Tail(its), parent_names, d)
         IN  [r EXCEPT !.val = IF h.status = "Ok" /\ r.status = "Ok" THEN <<h.val>> \o @
                                ELSE @,
                       !.opened = h.opened \o @]

\* the loops over summary items of load_book_from_disk and load_chapter: item by
\* item, stopping at the first that fails
load_items(its, parent_names, d) ==
    IF its = << >> THEN LoadOk(<< >>, << >>)
    ELSE LET h == load_summary_item(Head(its), parent_names, d)
         IN  IF h.status # "Ok" THEN h
             ELSE LET r == load_items(Tail(its), parent_names, d)
                  IN  [r EXCEPT !.val = IF r.status = "Ok" THEN <<h.val>> \o @ ELSE @,
                                !.opened = h.opened \o @]

load_chapter(link, parent_names, d) ==
    LET location == join(SrcDir, Unwrap(link.location))
        kind == FileKind(d, location)
        stripped == strip_prefix(location, SrcDir)
        files == IF IsSome(link.location) THEN <<location>> ELSE << >>
        ch == IF IsSome(link.location)
              THEN ChapterNew(link.name, StripBom(FileContent(d, location)), Unwrap(stripped),
                              parent_names)
              ELSE ChapterNewDraft(link.name, parent_names)
        sub_items == load_items(link.nested_items, sub_item_parents(parent_names, link.name), d)
    IN  IF IsSome(link.location) /\ kind = "missing"
        THEN LoadErr("Chapter file not found", files)
        ELSE IF IsSome(link.location) /\ kind = "unreadable"
        THEN LoadErr("Unable to read", files)
        ELSE IF IsSome(link.location) /\ stripped = None
        THEN LoadPanic(files)
        ELSE IF sub_items.status # "Ok"
        THEN [sub_items EXCEPT !.opened = files \o @]
        ELSE LoadOk([ch EXCEPT !.number = link.number, !.sub_items = sub_items.val],
                    files \o sub_items.opened)

\* load_book_from_disk that chains the suffix before the numbered chapters
load_book_from_disk_suffix_first(s, d) ==
    load_items(s.prefix_chapters \o s.suffix_chapters \o s.numbered_chapters, << >>, d)

\* load_book_from_disk: the chain of prefix, numbered and suffix items, loaded
\* item by item with no parent names
load_book_from_disk(s, d) ==
    load_items(s.prefix_chapters \o s.numbered_chapters \o s.suffix_chapters, << >>, d)

RECURSIVE LinkedLocations(_)
LinkedLocations(its) ==
    UNION { IF its[i].kind = "Link"
            THEN (IF IsSome(its[i].location) THEN {Unwrap(its[i].location)} ELSE {})
                 \cup LinkedLocations(its[i].nested_items)
            ELSE {} : i \in 1..Len(its) }

AllItems(s) == s.prefix_chapters \o s.numbered_chapters \o s.suffix_chapters

LinkedPaths(s) == {join(SrcDir, l) : l \in LinkedLocations(AllItems(s))}

\* bracket_escape, on a name whose '<' and '>' are tokens of their own
bracket_escape(s) ==
    [i \in 1..Len(s) |-> IF s[i] = "<" THEN "&lt;" ELSE IF s[i] = ">" THEN "&gt;" ELSE s[i]]

\* what create_missing writes: writeln!(f, "# {}", bracket_escape(&link.name))
SeededFile(name) ==
    [kind |-> "text", content |-> <<"# ">> \o bracket_escape(name) \o <<"\n">>]

\* create_missing that takes every file for missing
exists_never(d, filename) == FALSE

\* filename.exists(); a file that is "uncreatable" does not exist and File::create
\* fails for it
exists(d, filename) == FileKind(d, filename) \notin {"missing", "uncreatable"}

\* create_missing: the loop over the stack of items, whose last is popped
RECURSIVE create_missing(_, _)

\* create_missing that does not push the nested items of a link
create_missing_unnested(stack, d) ==
    IF stack = << >> THEN [status |-> "Ok", disk |-> d]
    ELSE LET next == stack[Len(stack)]
             rest == SubSeq(stack, 1, Len(stack) - 1)
         IN  IF next.kind # "Link" \/ next.location = None THEN create_missing(rest, d)
             ELSE LET filename == join(SrcDir, Unwrap(next.location))
                  IN  IF exists(d, filename) THEN create_missing(rest, d)
                      ELSE IF FileKind(d, filename) = "uncreatable"
                      THEN [status |-> "Err", disk |-> d]
                      ELSE create_missing(rest, [d EXCEPT ![filename] = SeededFile(next.name)])

create_missing(stack, d) ==
    IF stack = << >> THEN [status |-> "Ok", disk |-> d]
    ELSE LET next == stack[Len(stack)]
             rest == SubSeq(stack, 1, Len(stack) - 1)
         IN  IF next.kind # "Link" THEN create_missing(rest, d)
             ELSE IF next.location = None
             THEN create_missing(rest \o next.nested_items, d)
             ELSE LET filename == join(SrcDir, Unwrap(next.location))
                  IN  IF exists(d, filename)
                      THEN create_missing(rest \o next.nested_items, d)
                      ELSE IF FileKind(d, filename) = "uncreatable"
                      THEN [status |-> "Err", disk |-> d]
                      ELSE create_missing(rest \o next.nested_items,
                                          [d EXCEPT ![filename] = SeededFile(next.name)])

CreateError == "Unable to create missing chapters"

\* load_book with cfg.create_missing: create_missing(src_dir, &summary) on the
\* parsed summary, over any state of the files it links
CreateMissing ==
    /\ pc = "Ok"
    /\ \E k \in [LinkedPaths(Unwrap(summary)) -> FileKinds \cup {"uncreatable"}] :
         LET d == [f \in DOMAIN k |-> File(k[f])]
             r == create_missing(AllItems(Unwrap(summary)), d)
         IN  /\ disk0' = d
             /\ disk' = r.disk
             /\ load_err' = IF r.status = "Ok" THEN None ELSE Some(CreateError)
             /\ pc' = IF r.status = "Ok" THEN "created" ELSE "create_err"
    /\ UNCHANGED <<opened, book, mutated>>
    /\ UNCHANGED <<src, events, stream, offset, back, title, prefix_chapters,
                   numbered_chapters, suffix_chapters, parts, root_items, part_title,
                   items, first, other_tag, skip_start, levels, summary, err>>
    /\ UNCHANGED <<renderVars, mdVars, utilVars>>

\* load_book_from_disk(&summary, src_dir) on the parsed summary: over any state
\* of the files it links, or over the files create_missing has left
LoadBookFromDisk ==
    /\ pc \in {"Ok", "created"}
    /\ \E k \in IF pc = "created" THEN {<< >>}
                ELSE [LinkedPaths(Unwrap(summary)) -> FileKinds] :
         LET d == IF pc = "created" THEN disk ELSE [f \in DOMAIN k |-> File(k[f])]
             r == load_book_from_disk(Unwrap(summary), d)
         IN  /\ disk' = d
             /\ disk0' = IF pc = "created" THEN disk0 ELSE d
             /\ opened' = r.opened
             /\ book' = IF r.status = "Ok" THEN Some([sections |-> r.val]) ELSE None
             /\ load_err' = r.err
             /\ UNCHANGED mutated
             /\ pc' = IF r.status = "Ok" THEN "loaded"
                      ELSE IF r.status = "Err" THEN "load_err" ELSE r.status
    /\ UNCHANGED <<src, events, stream, offset, back, title, prefix_chapters,
                   numbered_chapters, suffix_chapters, parts, root_items, part_title,
                   items, first, other_tag, skip_start, levels, summary, err>>
    /\ UNCHANGED <<renderVars, mdVars, utilVars>>

\* the operations given to for_each_mut: they change an item in place and add
\* or remove none
Funcs == {"mark", "clear"}
func(op, item) ==
    IF op = "mark" /\ item.kind # "Separator" THEN [item EXCEPT !.name = Append(@, "*")]
    ELSE IF op = "clear" /\ item.kind = "Chapter" THEN [item EXCEPT !.content = << >>]
    ELSE item

RECURSIVE for_each_mut(_, _, _)

\* for_each_mut that does not recurse into the chapters
for_each_mut_top_level(op, its, log) ==
    [items |-> [i \in 1..Len(its) |-> func(op, its[i])], log |-> log \o its]

\* for_each_mut(func, items): for each item, first for_each_mut on the sub_items
\* of a chapter, then func(item); log collects the items func is called on
for_each_mut(op, its, log) ==
    IF its = << >> THEN [items |-> << >>, log |-> log]
    ELSE LET item == Head(its)
             sub == IF item.kind = "Chapter" THEN for_each_mut(op, item.sub_items, log)
                    ELSE [items |-> item.sub_items, log |-> log]
             seen == [item EXCEPT !.sub_items = sub.items]
             rest == for_each_mut(op, Tail(its), Append(sub.log, seen))
         IN  [items |-> <<func(op, seen)>> \o rest.items, log |-> rest.log]

\* Book::for_each_mut(func) on a copy of the loaded book
ForEachMut ==
    /\ pc = "loaded"
    /\ \E op \in Funcs :
         LET r == for_each_mut(op, Unwrap(book).sections, << >>)
         IN  mutated' = Some([func |-> op, sections |-> r.items, visited |-> r.log])
    /\ pc' = "mutated"
    /\ UNCHANGED <<disk0, disk, opened, book, load_err>>
    /\ UNCHANGED <<src, events, stream, offset, back, title, prefix_chapters,
                   numbered_chapters, suffix_chapters, parts, root_items, part_title,
                   items, first, other_tag, skip_start, levels, summary, err>>
    /\ UNCHANGED <<renderVars, mdVars, utilVars>>

----------------------------------------------------------------------------
(* The render pass (src/src/renderer/hbs_renderer.rs) over Book::iter()     *)

\* Book::iter
BookIter(b) == b.sections

\* BookItems::next that extends the queue at its back
BookItemsNextBreadthFirst(q) ==
    [item |-> Head(q),
     items |-> Tail(q) \o (IF Head(q).kind = "Chapter" THEN Head(q).sub_items ELSE << >>)]

\* BookItems::next on a non-empty queue: the front item, and the queue with the
\* item's sub_items pushed to its front in their order
BookItemsNext(q) ==
    [item |-> Head(q),
     items |-> (IF Head(q).kind = "Chapter" THEN Head(q).sub_items ELSE << >>) \o Tail(q)]

\* what an iterator yields until next returns None
RECURSIVE BookItemsCollect(_)
BookItemsCollect(q) ==
    IF q = << >> THEN << >>
    ELSE <<BookItemsNext(q).item>> \o BookItemsCollect(BookItemsNext(q).items)

IsExtension(token) == token \in {".md", ".ftd"}

\* Path::with_extension
with_extension(p, ext) ==
    IF p # << >> /\ IsExtension(p[Len(p)]) THEN Append(SubSeq(p, 1, Len(p) - 1), ext)
    ELSE Append(p, ext)

IndexFtd == <<"index", ".ftd">>
PagePiece == [kind |-> "page_break", path |-> << >>, content |-> << >>]
\* the transpiled content of a chapter, as pushed to print_content
ChapterPiece(ch) == [kind |-> "chapter", path |-> Unwrap(ch.path), content |-> ch.content]

\* render_item that renders every chapter, drafts under their name
render_item_any_chapter(item, index, breaks) ==
    IF item.kind = "Chapter"
    THEN [status |-> "Ok",
          pushed |-> <<[kind |-> "chapter", path |-> item.name, content |-> item.content]>>,
          files |-> <<with_extension(item.name, ".ftd")>>]
    ELSE [status |-> "Ok", pushed |-> << >>, files |-> << >>]

\* render_item(item, ctx, print_content): what it pushes to print_content, the
\* files it writes, and whether it returns Ok
render_item(item, index, breaks) ==
    IF item.kind = "Chapter" /\ ~is_draft_chapter(item)
    THEN LET path == Unwrap(item.path)
             pushed == (IF ~index /\ breaks THEN <<PagePiece>> ELSE << >>)
                       \o <<ChapterPiece(item)>>
         IN  IF path = PrintMd
             THEN [status |-> "Err", pushed |-> pushed, files |-> << >>]
             ELSE IF path = << >>
             THEN [status |-> ParentPanic, pushed |-> pushed, files |-> << >>]
             ELSE [status |-> "Ok", pushed |-> pushed,
                   files |-> <<with_extension(path, ".ftd")>>
                             \o (IF index THEN <<IndexFtd>> ELSE << >>)]
    ELSE [status |-> "Ok", pushed |-> << >>, files |-> << >>]

\* render, up to the loop: the iterator over the loaded book and is_index = true; the
\* files load_book read are out of the picture from here on
RenderBegin ==
    /\ pc = "loaded"
    /\ pc' = "render"
    /\ queue' = BookIter(Unwrap(book))
    /\ is_index' = TRUE
    /\ page_break' \in BOOLEAN
    /\ written' = << >>
    /\ print_content' = << >>
    /\ disk0' = << >>
    /\ disk' = << >>
    /\ UNCHANGED <<opened, book, load_err, mutated>>
    /\ UNCHANGED <<src, events, stream, offset, back, title, prefix_chapters,
                   numbered_chapters, suffix_chapters, parts, root_items, part_title,
                   items, first, other_tag, skip_start, levels, summary, err>>
    /\ UNCHANGED <<mdVars, utilVars>>

\* render: one iteration of `for item in book.iter()`, or its end
RenderItem ==
    /\ pc = "render"
    /\ IF queue = << >>
       THEN /\ pc' = "rendered"
            /\ UNCHANGED <<queue, is_index, written, print_content>>
       ELSE LET n == BookItemsNext(queue)
                r == render_item(n.item, is_index, page_break)
            IN  /\ queue' = n.items
                /\ print_content' = print_content \o r.pushed
                /\ written' = written \o r.files
                /\ IF r.status = "Ok"
                   THEN /\ is_index' = (is_index /\ ~(n.item.kind = "Chapter"
                                                      /\ ~is_draft_chapter(n.item)))
                        /\ UNCHANGED pc
                   ELSE /\ pc' = IF r.status = "Err" THEN "render_err" ELSE r.status
                        /\ UNCHANGED is_index
    /\ UNCHANGED page_break
    /\ UNCHANGED <<src, events, stream, offset, back, title, prefix_chapters,
                   numbered_chapters, suffix_chapters, parts, root_items, part_title,
                   items, first, other_tag, skip_start, levels, summary, err>>
    /\ UNCHANGED <<bookVars, mdVars, utilVars>>

\* the states in which MDBook::load or MDBook::build has returned to execute with
\* an error, or build has returned Ok
ExecuteReturns == {"Err", "create_err", "load_err", "render_err", "rendered"}

\* cmd::build::execute: the Result it returns, `?` handing the error of load or of
\* build on as it is; the chain of an error has its outermost context first
execute ==
    LET Failed(chain) == [ok |-> FALSE, chain |-> chain]
    IN  CASE pc = "Err" ->
                Failed(<< <<"Summary parsing failed for file=", "SUMMARY.md">>,
                          <<"failed to parse SUMMARY.md line ">> \o Decimal(Unwrap(err).line)
                          \o <<", column ">> \o Decimal(Unwrap(err).col)
                          \o <<": ", Unwrap(err).msg>> >>)
          [] pc = "create_err" -> Failed(<< <<Unwrap(load_err)>>, <<"io::Error">> >>)
          [] pc = "load_err" -> Failed(<< <<Unwrap(load_err)>>, <<"io::Error">> >>)
          [] pc = "render_err" ->
                Failed(<< <<"Rendering failed">>, <<"print.md is reserved for internal use">> >>)
          [] pc = "rendered" -> [ok |-> TRUE, chain |-> << >>]

\* utils::log_backtrace: the error, then each of its causes
log_backtrace(e) ==
    <<<<"Error: ">> \o e[1]>> \o [i \in 1..(Len(e) - 1) |-> <<"\tCaused By: ">> \o e[i + 1]]

\* main: the match on the subcommand evaluates to what execute returns, and the
\* statement ends there; main returns ()
Main ==
    /\ pc \in ExecuteReturns
    /\ returned' = Some(execute)
    /\ pc' = "exit"
    /\ UNCHANGED stderr
    /\ UNCHANGED <<src, events, stream, offset, back, title, prefix_chapters,
                   numbered_chapters, suffix_chapters, parts, root_items, part_title,
                   items, first, other_tag, skip_start, levels, summary, err>>
    /\ UNCHANGED <<bookVars, renderVars, mdVars, tlVars, idVars, runs, preVars>>

Next ==
    \/ ParseTitle
    \/ ParseAffix(TRUE)
    \/ ParseParts
    \/ ParseNumbered
    \/ SkipTag
    \/ ParseNestedNumbered
    \/ ParseNestedItem
    \/ ParseAffix(FALSE)
    \/ CreateMissing
    \/ LoadBookFromDisk
    \/ ForEachMut
    \/ RenderBegin
    \/ RenderItem
    \/ Main

Spec == Init /\ [][Next]_vars

----------------------------------------------------------------------------
(* parse_summary called several times in one process                        *)

\* most calls of parse_summary in one process
MaxParses == 3

\* the texts parse_summary is called with, each with the events pulldown_cmark
\* yields for it
ReparseInputs ==
    {[src |-> DefaultText, events |-> InOrder(s)] :
        s \in {SpecExample, QuoteInQuote, QuotedParts, TwoListsInItem, <<StartPara, StartH1>>}
              \cup FailingStreams}
    \cup {[src |-> Bytes(<<"e'", "\n", "a">>),
           events |-> WithOffsets(<<StartList, StartItem>>, <<3, 4>>)]}

\* SummaryParser::new goes on where the parser before it stopped
SummaryParser_kept(text) ==
    [src |-> text.src, events |-> text.events, stream |-> stream, offset |-> offset,
     back |-> back]

\* SummaryParser::new(text)
SummaryParser_new(text) ==
    [src |-> text.src, events |-> text.events, stream |-> 0, offset |-> 0, back |-> None]

\* parse_summary(summary) up to the first iteration of parse_title: a new
\* SummaryParser, and the locals of parse and of the functions it calls
ParseSummary(text) ==
    LET parser == SummaryParser_new(text)
    IN  /\ src' = parser.src
        /\ events' = parser.events
        /\ stream' = parser.stream
        /\ offset' = parser.offset
        /\ back' = parser.back
        /\ pc' = "parse_title"
        /\ title' = None
        /\ prefix_chapters' = << >>
        /\ numbered_chapters' = << >>
        /\ suffix_chapters' = << >>
        /\ parts' = << >>
        /\ root_items' = 0
        /\ part_title' = None
        /\ items' = << >>
        /\ first' = TRUE
        /\ other_tag' = None
        /\ skip_start' = 0
        /\ levels' = << >>
        /\ summary' = None
        /\ err' = None

\* nothing is loaded from disk, nothing rendered
BookAtRest ==
    /\ disk0 = << >>
    /\ disk = << >>
    /\ opened = << >>
    /\ book = None
    /\ load_err = None
    /\ mutated = None
    /\ queue = << >>
    /\ is_index = TRUE
    /\ page_break = TRUE
    /\ written = << >>
    /\ print_content = << >>

\* the first call of parse_summary is at its first iteration
ReparseInit ==
    /\ \E text \in ReparseInputs : src = text.src /\ events = text.events
    /\ stream = 0
    /\ offset = 0
    /\ back = None
    /\ pc = "parse_title"
    /\ title = None
    /\ prefix_chapters = << >>
    /\ numbered_chapters = << >>
    /\ suffix_chapters = << >>
    /\ parts = << >>
    /\ root_items = 0
    /\ part_title = None
    /\ items = << >>
    /\ first = TRUE
    /\ other_tag = None
    /\ skip_start = 0
    /\ levels = << >>
    /\ summary = None
    /\ err = None
    /\ BookAtRest
    /\ MdAtRest
    /\ UtilAtRest

\* parse_summary has returned Ok or Err; the caller keeps the result and, unless it
\* has made all its calls, calls parse_summary with a text again
ParseAgain ==
    /\ pc \in {"Ok", "Err"}
    /\ Len(runs) < MaxParses
    /\ runs' = Append(runs, [src |-> src, events |-> events, summary |-> summary, err |-> err])
    /\ IF Len(runs) + 1 < MaxParses
       THEN \E text \in ReparseInputs : ParseSummary(text)
       ELSE /\ pc' = "parsed"
            /\ UNCHANGED <<src, events, stream, offset, back, title, prefix_chapters,
                           numbered_chapters, suffix_chapters, parts, root_items,
                           part_title, items, first,
                   other_tag, skip_start, levels, summary, err>>
    /\ UNCHANGED <<bookVars, renderVars, mdVars, tlVars, idVars, mainVars, preVars>>

ReparseNext ==
    \/ ParseTitle
    \/ ParseAffix(TRUE)
    \/ ParseParts
    \/ ParseNumbered
    \/ SkipTag
    \/ ParseNestedNumbered
    \/ ParseNestedItem
    \/ ParseAffix(FALSE)
    \/ ParseAgain

ReparseSpec == ReparseInit /\ [][ReparseNext]_vars

----------------------------------------------------------------------------
(* utils::render_markdown_with_path (src/src/utils/mod.rs): every event of  *)
(* a chapter's Markdown passes through clean_codeblock_headers and then      *)
(* through adjust_links                                                      *)

MaxInfoLen == 3     \* longest generated info string of a fenced code block, in characters
MaxMdEvents == 2    \* most events in a generated mixed Markdown event stream

\* Markdown events beside those of the summary
StartImage(dest) == Ev("Start", "Image", dest)
StartFenced(info) == Ev("Start", "CodeBlockFenced", info)
StartIndented == Ev("Start", "CodeBlockIndented", << >>)
StartTable == Ev("Start", "Table", << >>)

\* Tag::Link(link_type, dest, title): the tag "Link" stands for an inline link,
\* the other tags for links of the other types
LinkTypes_all_inline ==
    [Link |-> "Inline", LinkAutolink |-> "Inline", LinkReference |-> "Inline"]
LinkTypes == [Link |-> "Inline", LinkAutolink |-> "Autolink", LinkReference |-> "Reference"]
StartLinkOf(tag, dest) == Ev("Start", tag, dest)
EndTable == Ev("End", "Table", << >>)

\* char::is_whitespace, on the characters of the info strings
is_whitespace(ch) == ch \in {" ", "\t", "\f", "\r"}

\* the event clean_codeblock_headers would return if it changed nothing
clean_codeblock_headers_unchanged(event) == event

\* clean_codeblock_headers: the info string of a fenced code block, character by
\* character: map, then filter
RECURSIVE CleanInfo(_)
CleanInfo(info) ==
    IF info = << >> THEN << >>
    ELSE LET x == Head(info)
             ch == IF x \in {" ", "\t"} THEN "," ELSE x
         IN  (IF is_whitespace(ch) THEN << >> ELSE <<ch>>) \o CleanInfo(Tail(info))

clean_codeblock_headers(event) ==
    IF event.type = "Start" /\ event.tag = "CodeBlockFenced"
    THEN StartFenced(CleanInfo(event.s))
    ELSE event

\* SCHEME_LINK.is_match(dest): ^[a-z][a-z0-9+.-]*: ; tail is the tokens that consist
\* of characters of [a-z0-9+.-] only, start those of them that begin with one of [a-z]
SCHEME_LINK(dest) ==
    LET tail == {"https", "mailto", "other", "foo", "section", "img", ".md", ".png", "."}
        start == {"https", "mailto", "other", "foo", "section", "img"}
    IN  \E k \in 2..Len(dest) :
            /\ dest[k] = ":"
            /\ dest[1] \in start
            /\ \A j \in 2..(k - 1) : dest[j] \in tail

\* MD_LINK.captures(dest): (?P<link>.*)\.md(?P<anchor>#.*)? ; the greedy link runs to
\* the last ".md", the anchor is the rest when that starts with '#'
MD_LINK(dest) ==
    LET at == {i \in 1..Len(dest) : dest[i] = ".md"}
    IN  IF at = {} THEN None
        ELSE LET i == CHOOSE m \in at : \A n \in at : n <= m
             IN  Some([link |-> SubSeq(dest, 1, i - 1),
                       anchor |-> IF i < Len(dest) /\ dest[i + 1] = "#"
                                  THEN Some(SubSeq(dest, i + 1, Len(dest)))
                                  ELSE None])

\* Path::parent of a relative path: None for the empty path, else the path without
\* its last component
parent(p) ==
    LET slashes == {i \in 1..Len(p) : p[i] = "/"}
        last == IF slashes = {} THEN 0 ELSE CHOOSE m \in slashes : \A n \in slashes : n <= m
    IN  IF p = << >> THEN None ELSE Some(SubSeq(p, 1, last - 1))

EmptyPathPanic == "panic: path can't be empty"

\* fix, fragment-only link: format!("/{}/{}", base, dest)
FragmentLink(base, dest) == <<"/">> \o base \o <<"/">> \o dest

\* fix, relative link: what is pushed after the base when MD_LINK does not apply
RelativeLinkKept(dest) == dest

\* fix, relative link: what is pushed to fixed_link after the base
RelativeLink(dest) ==
    IF IsSome(MD_LINK(dest))
    THEN LET caps == Unwrap(MD_LINK(dest))
         IN  caps.link \o <<".ftd">> \o (IF IsSome(caps.anchor) THEN Unwrap(caps.anchor) ELSE << >>)
    ELSE dest

\* adjust_links::fix
fix(dest, path) ==
    IF dest # << >> /\ dest[1] = "#"
    THEN IF IsSome(path)
         THEN LET display == Unwrap(path)
                  base == IF display # << >> /\ display[Len(display)] = ".md"
                          THEN SubSeq(display, 1, Len(display) - 1) \o <<".ftd">>
                          ELSE display
              IN  FragmentLink(base, dest)
         ELSE dest
    ELSE IF ~SCHEME_LINK(dest)
    THEN IF IsSome(path) /\ parent(Unwrap(path)) = None
         THEN <<EmptyPathPanic>>
         ELSE LET base == IF IsSome(path) THEN Unwrap(parent(Unwrap(path))) ELSE << >>
              IN  (IF base # << >> THEN base \o <<"/">> ELSE << >>) \o RelativeLink(dest)
    ELSE dest

\* the closing quote of an attribute value in raw HTML
Quote == "\""

\* adjust_links::fix_html: HTML_LINK.replace_all over html, a sequence of tokens in
\* which a token that ends as capture 1 of HTML_LINK does is followed by the attribute
\* value and its closing quote
RECURSIVE fix_html(_, _)
fix_html(html, path) ==
    IF html = << >> THEN << >>
    ELSE LET quotes == {i \in 2..Len(html) : html[i] = Quote}
             q == IF quotes = {} THEN 0 ELSE CHOOSE m \in quotes : \A n \in quotes : m <= n
         IN  IF Head(html) \in {"<a href=\"", "<img src=\""} /\ q > 2
             THEN <<Head(html)>> \o fix(SubSeq(html, 2, q - 1), path) \o <<Quote>>
                  \o fix_html(SubSeq(html, q + 1, Len(html)), path)
             ELSE <<Head(html)>> \o fix_html(Tail(html), path)

\* adjust_links
adjust_links(event, path) ==
    IF event.type = "Start" /\ event.tag \in DOMAIN LinkTypes
    THEN StartLinkOf(event.tag, fix(event.s, path))
    ELSE IF event.type = "Start" /\ event.tag = "Image" THEN StartImage(fix(event.s, path))
    ELSE IF event.type = "Html" THEN Html(fix_html(event.s, path))
    ELSE event

\* the destinations of the links and images of the generated chapters
Fragment == <<"#", "foo">>
RelativeMd == <<"./", "other", ".md", "#", "section">>
PlainMd == <<"other", ".md">>
LowerScheme == <<"https", ":", "//x.com/y", ".md">>
UpperScheme == <<"HTTPS", ":", "//x.com/y", ".md">>
Mailto == <<"mailto", ":", "a@b">>
Picture == <<"img", ".png">>
Destinations == {Fragment, RelativeMd, PlainMd, LowerScheme, UpperScheme, Mailto, Picture,
                 << >>}

\* the info strings of the fenced code blocks: the example of the documentation and
\* every string of up to MaxInfoLen characters
InfoChars == {" ", "\t", "\f", "r"}
InfoExample == <<"lang", " ", "rust", ",", "edition2021">>
InfoStrings ==
    {InfoExample} \cup UNION {[1..n -> InfoChars] : n \in 0..MaxInfoLen}

\* the source paths a chapter is rendered with: None from render_markdown
GuideIntro == <<"guide", "/", "intro", ".md">>
ChapterPaths == {None,
                 Some(GuideIntro),
                 Some(<<"intro", ".md">>),
                 Some(<<"guide", "/", "notes", ".txt">>)}

MdLinkEvents ==
    {StartLink(d) : d \in Destinations} \cup {StartImage(d) : d \in Destinations}
        \cup {StartLinkOf("LinkAutolink", LowerScheme), StartLinkOf("LinkReference", PlainMd)}
MdHtmlEvents == {Html(<<"<a href=\"">> \o d \o <<Quote, ">">>) : d \in {Fragment, RelativeMd}}
                  \cup {Html(<<"<b>">>)}
MdOtherEvents == {StartIndented, StartPara, Text(<<"text">>), Ev("End", "Link", << >>),
                Ev("End", "CodeBlockFenced", <<" ">>), Ev("Code", "", Fragment)}
MdFencedEvents == {StartFenced(i) : i \in InfoStrings}

\* one event of each kind, for the mixed streams
SampleEvents == {StartLink(Fragment), StartLink(RelativeMd), StartImage(UpperScheme),
                 StartFenced(InfoExample), StartIndented, Text(<<"text">>),
                 StartH1, StartPara, EndPara, StartTable, EndTable, SoftBreak,
                 StartLinkOf("LinkAutolink", Mailto)}

\* a chapter: a heading, a paragraph with a link in its middle, an image and a table
SampleChapter ==
    <<StartH1, Text(<<"Title">>), EndH1,
      StartPara, Text(<<"see">>), StartLink(PlainMd), Text(<<"other">>), EndLink(PlainMd),
      Text(<<"too">>), EndPara,
      StartPara, StartImage(Picture), Text(<<"alt">>), Ev("End", "Image", Picture), EndPara,
      StartTable, Ev("Start", "TableHead", << >>), Ev("End", "TableHead", << >>), EndTable>>

MdStreams ==
    {<<e>> : e \in MdLinkEvents \cup MdHtmlEvents \cup MdOtherEvents \cup MdFencedEvents}
        \cup UNION {[1..n -> SampleEvents] : n \in 2..MaxMdEvents}
        \cup {SampleChapter}

\* no summary is being parsed, no book loaded or rendered; pc names the function that runs
AtRest(label) ==
    /\ src = << >>
    /\ events = << >>
    /\ stream = 0
    /\ offset = 0
    /\ back = None
    /\ pc = label
    /\ title = None
    /\ prefix_chapters = << >>
    /\ numbered_chapters = << >>
    /\ suffix_chapters = << >>
    /\ parts = << >>
    /\ root_items = 0
    /\ part_title = None
    /\ items = << >>
    /\ first = TRUE
    /\ other_tag = None
    /\ skip_start = 0
    /\ levels = << >>
    /\ summary = None
    /\ err = None
    /\ disk0 = << >>
    /\ disk = << >>
    /\ opened = << >>
    /\ book = None
    /\ load_err = None
    /\ mutated = None
    /\ queue = << >>
    /\ is_index = TRUE
    /\ page_break = TRUE
    /\ written = << >>
    /\ print_content = << >>

\* wrap_tables that wraps nothing
wrap_tables_unwrapped(event) == <<event>>

\* wrap_tables: the one or two events the pair holds
wrap_tables(event) ==
    IF IsStart(event, "Table") THEN <<Html(<<"<div class=\"table-wrapper\">">>), event>>
    ELSE IF IsEnd(event, "Table") THEN <<event, Html(<<"</div>">>)>>
    ELSE <<event>>

\* MarkDownEvents::as_str, a string being the sequence of its pieces
Heading == <<"heading">>
Paragraph == <<"paragraph">>
LinkTag == <<"link">>

\* Display of HeadingLevel
HeadingLevels == [H1 |-> "h1", H2 |-> "h2"]

\* str::replace('/', "."), piece by piece
Dotted(piece) ==
    CASE piece = "/" -> "."
      [] piece = "./" -> ".."
      [] piece = "//x.com/y" -> "..x.com.y"
      [] OTHER -> piece

\* render_to_docsite(event, current_tag, tag_started): result_str, current_tag, tag_started
render_to_docsite(event, tag, started) ==
    LET R(str, t, b) == [result_str |-> str, current_tag |-> t, tag_started |-> b]
    IN  IF event.type = "Start" THEN
            IF event.tag \in DOMAIN HeadingLevels
                THEN R(<<"-- ds.", HeadingLevels[event.tag], ": ">>, Heading, TRUE)
            ELSE IF event.tag = "Paragraph" THEN R(<<"-- ds.markdown: ">>, Paragraph, TRUE)
            ELSE IF event.tag \in DOMAIN LinkTypes
                THEN IF LinkTypes[event.tag] = "Inline"
                     THEN R(<<"(/">> \o SelectSeq(event.s, LAMBDA piece : piece # ".ftd")
                            \o <<"/)">>, LinkTag, TRUE)
                     ELSE R(<< >>, tag, TRUE)
            ELSE IF event.tag = "Image"
                THEN R(<<"-- ds.image: \n                src: $assets.files">>
                       \o [i \in 1..Len(event.s) |-> Dotted(event.s[i])]
                       \o <<"\n                align: center">>, tag, TRUE)
            ELSE R(<< >>, tag, TRUE)
        ELSE IF event.type = "Text" THEN
            IF tag = Heading THEN R(<<" ">> \o event.s, tag, FALSE)
            ELSE IF tag = LinkTag THEN R(<<"[">> \o event.s \o <<"]">>, tag, FALSE)
            ELSE IF tag = Paragraph THEN R(event.s, tag, FALSE)
            ELSE R(<< >>, tag, FALSE)
        ELSE IF event.type = "End" THEN R(<< >>, tag, FALSE)
        ELSE R(<< >>, tag, started)

\* the three format! calls put together the same pieces in one order
AssembleAppended(tag, result_str, pending) == pending \o <<"\n">> \o result_str

\* tag_parsed_string as the three branches for !tag_started format it
Assemble(tag, result_str, pending) ==
    IF tag = LinkTag THEN result_str \o pending \o <<"\n">>
    ELSE IF tag = Heading THEN pending \o result_str \o <<"\n">>
    ELSE pending \o <<"\n">> \o result_str

\* the events the loop of render_markdown_with_path is handed, as far as made
Handed == Concat(wrapped)

\* render_markdown_with_path is entered with the events of a chapter and its path
MdInit ==
    /\ md_events \in MdStreams
    /\ md_path \in ChapterPaths
    /\ cleaned = << >>
    /\ adjusted = << >>
    /\ wrapped = << >>
    /\ transpiled = 0
    /\ parsed_str = << >>
    /\ current_tag = << >>
    /\ tag_started = FALSE
    /\ tag_parsed_string = << >>
    /\ rendered_docsite = << >>
    /\ AtRest("render_markdown")
    /\ UtilAtRest

\* p.map(clean_codeblock_headers): the loop asks for an event, flat_map has none
\* left, and the next event of the parser is mapped
CleanCodeblockHeaders ==
    /\ pc = "render_markdown"
    /\ Len(cleaned) = Len(adjusted)
    /\ Len(adjusted) = Len(wrapped)
    /\ transpiled = Len(Handed)
    /\ Len(cleaned) < Len(md_events)
    /\ cleaned' = Append(cleaned, clean_codeblock_headers(md_events[Len(cleaned) + 1]))
    /\ UNCHANGED <<md_events, md_path, adjusted, wrapped, loopVars>>
    /\ UNCHANGED <<parserVars, bookVars, renderVars, utilVars>>

\* .map(|event| adjust_links(event, path)): the event just cleaned is mapped
AdjustLinks ==
    /\ pc = "render_markdown"
    /\ Len(adjusted) < Len(cleaned)
    /\ adjusted' = Append(adjusted, adjust_links(cleaned[Len(cleaned)], md_path))
    /\ UNCHANGED <<md_events, md_path, cleaned, wrapped, loopVars>>
    /\ UNCHANGED <<parserVars, bookVars, renderVars, utilVars>>

\* .flat_map(|event| wrap_tables(event) ...): the event just adjusted is wrapped
WrapTables ==
    /\ pc = "render_markdown"
    /\ Len(wrapped) < Len(adjusted)
    /\ wrapped' = Append(wrapped, wrap_tables(adjusted[Len(adjusted)]))
    /\ UNCHANGED <<md_events, md_path, cleaned, adjusted, loopVars>>
    /\ UNCHANGED <<parserVars, bookVars, renderVars, utilVars>>

\* the body of `for event in events`, for the next event flat_map holds
Transpile ==
    /\ pc = "render_markdown"
    /\ transpiled < Len(Handed)
    /\ LET r == render_to_docsite(Handed[transpiled + 1], current_tag, tag_started)
       IN  /\ parsed_str' = r.result_str
           /\ current_tag' = r.current_tag
           /\ tag_started' = r.tag_started
           /\ IF ~r.tag_started
              THEN /\ rendered_docsite' = rendered_docsite
                        \o Assemble(r.current_tag, r.result_str, tag_parsed_string)
                   /\ tag_parsed_string' = << >>
              ELSE /\ tag_parsed_string' = r.result_str
                   /\ UNCHANGED rendered_docsite
    /\ transpiled' = transpiled + 1
    /\ UNCHANGED <<md_events, md_path, cleaned, adjusted, wrapped>>
    /\ UNCHANGED <<parserVars, bookVars, renderVars, utilVars>>

\* the parser has no event left: render_markdown_with_path returns rendered_docsite
ReturnRendered ==
    /\ pc = "render_markdown"
    /\ Len(wrapped) = Len(md_events)
    /\ transpiled = Len(Handed)
    /\ pc' = "render_markdown_returned"
    /\ UNCHANGED <<src, events, stream, offset, back, title, prefix_chapters,
                   numbered_chapters, suffix_chapters, parts, root_items, part_title,
                   items, first, other_tag, skip_start, levels, summary, err>>
    /\ UNCHANGED <<bookVars, renderVars, mdVars, utilVars>>

MdNext ==
    \/ CleanCodeblockHeaders
    \/ AdjustLinks
    \/ WrapTables
    \/ Transpile
    \/ ReturnRendered

MdSpec == MdInit /\ [][MdNext]_vars

----------------------------------------------------------------------------
(* Properties *)

\* the states in which parse_summary has not returned yet
ParsingStates ==
    {"parse_title", "parse_affix_prefix", "parse_parts", "parse_numbered", "skip",
     "parse_nested_numbered", "parse_nested_item", "parse_affix_suffix"}

LinksOf(its) == SelectSeq(its, LAMBDA it : it.kind = "Link")

\* below a link, the k-th link of nested_items has the link's number with k appended
RECURSIVE NestedNumbersFollow(_)
NestedNumbersFollow(link) ==
    LET nested == LinksOf(link.nested_items)
    IN  \A k \in 1..Len(nested) :
            /\ nested[k].number = Some(Append(Unwrap(link.number), k))
            /\ NestedNumbersFollow(nested[k])

\* C1: in every Summary the parser returns, the top-level links of
\* numbered_chapters are numbered [1], [2], ..., [n] in order, whatever part
\* titles and separators lie between them, and at every depth the k-th nested
\* link of a link carries the link's number with k appended.
C1_ContinuousNumbering ==
    IsSome(summary) =>
        LET top == LinksOf(Unwrap(summary).numbered_chapters)
        IN  \A i \in 1..Len(top) :
                top[i].number = Some(<<i>>) /\ NestedNumbersFollow(top[i])

\* C1 witness: a returned Summary whose third numbered link follows a part title
\* that follows a link, with a nested link below the first
C1_Witness ==
    /\ IsSome(summary)
    /\ LET numbered == Unwrap(summary).numbered_chapters
       IN  \E i \in 2..(Len(numbered) - 1) :
               /\ numbered[i].kind = "PartTitle"
               /\ numbered[i - 1].kind = "Link"
               /\ numbered[i + 1].kind = "Link"
               /\ numbered[i + 1].number = Some(<<3>>)
               /\ numbered[1].kind = "Link"
               /\ numbered[1].nested_items # << >>

\* the Summary of the end-to-end scenario, but for its title
ExampleParsed(s) ==
    /\ s.prefix_chapters = <<Link(<<"Introduction">>, Some(Intro), None, << >>)>>
    /\ s.suffix_chapters = << >>
    /\ Len(s.numbered_chapters) = 3
    /\ s.numbered_chapters[1] = PartTitle(<<"Part One">>)
    /\ LET first_link == s.numbered_chapters[2]
           second_link == s.numbered_chapters[3]
       IN  /\ first_link.kind = "Link" /\ second_link.kind = "Link"
           /\ first_link.name = <<"Chapter 1">> /\ first_link.location = Some(Ch1)
           /\ second_link.name = <<"Chapter 2">> /\ second_link.location = Some(Ch2)
           /\ SectionNumberDisplay(Unwrap(first_link.number)) = <<"1", ".">>
           /\ SectionNumberDisplay(Unwrap(second_link.number)) = <<"2", ".">>
           /\ second_link.nested_items = << >>
           /\ Len(first_link.nested_items) = 1
           /\ first_link.nested_items[1].kind = "Link"
           /\ first_link.nested_items[1].name = <<"Chapter 1a">>
           /\ first_link.nested_items[1].location = Some(Ch1a)
           /\ first_link.nested_items[1].nested_items = << >>
           /\ SectionNumberDisplay(Unwrap(first_link.nested_items[1].number))
                  = <<"1", ".", "1", ".">>

ExampleReturned == events = InOrder(SpecExample) /\ pc \notin ParsingStates

\* C2 as stated: parsing the scenario text yields title = None, one prefix link
\* Introduction (intro.md, no number), the part title 'Part One' and two numbered
\* links 1. and 2., the first with exactly one nested link 1.1.
C2_ExampleTitleNone ==
    ExampleReturned =>
        /\ IsSome(summary)
        /\ Unwrap(summary).title = None
        /\ ExampleParsed(Unwrap(summary))

\* C2 amended: the same Summary, with title = Some("Summary"): the leading
\* '# Summary' heading is consumed as the title
C2_ExampleTitleSummary ==
    ExampleReturned =>
        /\ IsSome(summary)
        /\ Unwrap(summary).title = Some(<<"Summary">>)
        /\ ExampleParsed(Unwrap(summary))

\* C2 witness: the scenario text has been parsed
C2_Witness == events = InOrder(SpecExample) /\ pc = "Ok"

RECURSIVE AllNumbered(_)
AllNumbered(its) ==
    \A i \in 1..Len(its) :
        its[i].kind = "Link" =>
            /\ IsSome(its[i].number)
            /\ Unwrap(its[i].number) # << >>
            /\ AllNumbered(its[i].nested_items)

AffixPlain(its) ==
    \A i \in 1..Len(its) :
        its[i].kind = "Link" => its[i].number = None /\ its[i].nested_items = << >>

\* C3: in every returned Summary every link reachable from numbered_chapters
\* has a non-empty number and every prefix or suffix link has no number and no
\* nested items; and the parser never aborts or fails looking up the number of
\* the last link when it recurses into a nested list.
C3_NumberedHaveNumbers ==
    /\ IsSome(summary) =>
           /\ AllNumbered(Unwrap(summary).numbered_chapters)
           /\ AffixPlain(Unwrap(summary).prefix_chapters)
           /\ AffixPlain(Unwrap(summary).suffix_chapters)
    /\ pc # NumberPanic
    /\ IsSome(err) => Unwrap(err).msg # LastLinkError

\* C3 witness: a returned Summary with a prefix link, a numbered link that has a
\* nested link, and a suffix link
C3_Witness ==
    /\ IsSome(summary)
    /\ LinksOf(Unwrap(summary).prefix_chapters) # << >>
    /\ LinksOf(Unwrap(summary).suffix_chapters) # << >>
    /\ \E i \in 1..Len(Unwrap(summary).numbered_chapters) :
           /\ Unwrap(summary).numbered_chapters[i].kind = "Link"
           /\ LinksOf(Unwrap(summary).numbered_chapters[i].nested_items) # << >>

\* the event the running loop reads next is the start of a list or of an H1 heading
ListOrHeadingNext ==
    /\ IsSome(next_event.ev)
    /\ Unwrap(next_event.ev).type = "Start"
    /\ Unwrap(next_event.ev).tag \in {"List", "H1"}

\* C4: when the suffix phase reads the start of a list or of an H1 heading,
\* parse_summary returns the error 'Suffix chapters cannot be followed by a
\* list' and no Summary; when the prefix phase reads one, the prefix phase ends,
\* the event is pushed back and it is the next event the parts phase reads.
C4_SuffixThenListFails ==
    /\ [](pc = "Err" => summary = None)
    /\ [][ /\ (pc = "parse_affix_suffix" /\ ListOrHeadingNext) =>
                  /\ pc' = "Err"
                  /\ IsSome(err') /\ Unwrap(err').msg = SuffixError
                  /\ summary' = None
           /\ (pc = "parse_affix_prefix" /\ ListOrHeadingNext) =>
                  /\ pc' = "parse_parts"
                  /\ back' = next_event.ev
                  /\ next_event'.ev = next_event.ev
                  /\ stream' = next_event.stream ]_vars

\* C4 witness: the error was returned after a suffix link; the numbered
\* chapters before it were parsed from the list that ended the prefix
C4_Witness ==
    /\ pc = "Err"
    /\ Unwrap(err).msg = SuffixError
    /\ LinksOf(numbered_chapters) # << >>
    /\ LinksOf(suffix_chapters) # << >>

NextIsStart(tag) == IsSome(next_event.ev) /\ IsStart(Unwrap(next_event.ev), tag)

\* C5: every item-start the numbered section's list loop reads is parsed as a
\* list item; paragraph-starts that follow it are passed over; and if the next
\* event then is anything but a link-start, or the stream has ended,
\* parse_summary returns the error 'The link items for nested chapters must only
\* contain a hyperlink' and no Summary.
C5_ItemMustStartWithLink ==
    /\ [](IsSome(err) => summary = None)
    /\ [][ /\ (pc = "parse_nested_numbered" /\ NextIsStart("Item")) =>
                  pc' = "parse_nested_item"
           /\ (pc = "parse_nested_item" /\ NextIsStart("Paragraph")) =>
                  pc' = "parse_nested_item"
           /\ (pc = "parse_nested_item" /\ ~NextIsStart("Paragraph")
                                        /\ ~NextIsStart("Link")) =>
                  /\ pc' = "Err"
                  /\ IsSome(err') /\ Unwrap(err').msg = ItemError
                  /\ summary' = None ]_vars

\* C5 witness: the error was returned for an item of a later list, after a list
\* whose items were links
C5_Witness ==
    /\ pc = "Err"
    /\ Unwrap(err).msg = ItemError
    /\ root_items >= 1

\* the two situations in which the parser bails
SuffixSituation == pc = "parse_affix_suffix" /\ ListOrHeadingNext
ItemSituation ==
    pc = "parse_nested_item" /\ ~NextIsStart("Paragraph") /\ ~NextIsStart("Link")

\* the events the parser has still to read
Remaining == (Len(events) - stream) + (IF IsSome(back) THEN 1 ELSE 0)

\* how far the loop that is running is from handing over, among the states that
\* have the same events still to read
PhaseRank ==
    CASE pc = "parse_title" -> 70
      [] pc = "parse_affix_prefix" -> 60
      [] pc = "parse_parts" ->
             IF NextIsStart("H1") THEN 10
             ELSE IF IsSome(next_event.ev) /\ ~NextIsStart("Paragraph") THEN 50
             ELSE 2
      [] pc = "parse_numbered" -> IF NextIsStart("List") THEN 40 ELSE 17
      [] pc = "parse_nested_numbered" -> 18 + Len(levels)
      [] pc = "skip" -> 18
      [] pc \in {"parse_nested_item", "parse_affix_suffix"} -> 1
      [] OTHER -> 0

\* a measure that every step of the parser decreases
Measure == 100 * Remaining + PhaseRank

ParserNext ==
    \/ ParseTitle \/ ParseAffix(TRUE) \/ ParseParts \/ ParseNumbered \/ SkipTag
    \/ ParseNestedNumbered \/ ParseNestedItem \/ ParseAffix(FALSE)

\* C6: parse_summary returns an error only when the suffix phase reads the start
\* of a list or of an H1 heading, or when a numbered list item does not start
\* with a link; the error is then one of the two messages.  On every other
\* event stream, whatever unsupported, unbalanced or truncated constructs it
\* holds, the parser never aborts and returns a Summary: while it runs it can
\* take a step and each step decreases a natural-number measure, and when it
\* has returned there is a Summary exactly if there is no error.
C6_OnlyTwoFailures ==
    /\ [](pc \notin {BackPanic, NumberPanic, IndexPanic} /\ (IsSome(back) => Unwrap(back).type # "Panic"))
    /\ [](IsSome(err) => Unwrap(err).msg \in {SuffixError, ItemError})
    /\ [](pc \notin ParsingStates => (IsSome(summary) <=> ~IsSome(err)))
    /\ [][(pc # "Err" /\ pc' = "Err") => (SuffixSituation \/ ItemSituation)]_vars
    /\ [](pc \in ParsingStates => ENABLED ParserNext)
    /\ [][(pc \in ParsingStates) => (Measure' < Measure)]_vars

\* C6 witness: a Summary was returned for a stream in which a list is never
\* closed
C6_Witness ==
    /\ pc = "Ok"
    /\ \E i \in 1..Len(events) :
           /\ IsStart(events[i], "List")
           /\ \A j \in (i + 1)..Len(events) : ~IsEnd(events[j], "List")

\* the 1-based line and column of byte offset o of a text
OneBasedLocation(text, o) ==
    LET newlines == {i \in 1..o : text[i] = "\n"}
        \* the 0-based offset at which the line of o starts
        line_start == IF newlines = {} THEN 0
                      ELSE CHOOSE i \in newlines : \A j \in newlines : j <= i
    IN  <<1 + Cardinality(newlines), 1 + CharCount(SubSeq(text, line_start + 1, o))>>

\* C7 as stated: every parse error carries the 1-based line and the 1-based
\* column of the offset of the last event read: 1 + the newlines before it and
\* 1 + the characters between the start of its line and it, on the first line
\* as on later lines.
C7_OneBasedLineAndColumn ==
    IsSome(err) =>
        <<Unwrap(err).line, Unwrap(err).col>> = OneBasedLocation(src, offset)

\* C7, what the code does: the line is 1-based everywhere; the column is
\* 1-based on later lines and 0-based on the first line
C7_FirstLineColumnZeroBased ==
    IsSome(err) =>
        LET loc == OneBasedLocation(src, offset)
            first_line == \A i \in 1..offset : src[i] # "\n"
        IN  /\ Unwrap(err).line = loc[1]
            /\ Unwrap(err).col = IF first_line THEN loc[2] - 1 ELSE loc[2]

\* C7 witness: an error on the first line of a text, past a two-byte character
C7_Witness ==
    /\ IsSome(err)
    /\ offset > 1
    /\ \A i \in 1..offset : src[i] # "\n"
    /\ \E i \in 1..offset : IsContinuation(src[i])

\* the link the running loop has just pushed
LastOf(its) == its[Len(its)]

\* the files of the links that have a location, in the order the loader visits
\* the links
RECURSIVE LinkedFiles(_)
LinkedFiles(its) ==
    IF its = << >> THEN << >>
    ELSE LET it == Head(its)
         IN  (IF it.kind = "Link"
              THEN (IF IsSome(it.location) THEN <<join(SrcDir, Unwrap(it.location))>>
                    ELSE << >>) \o LinkedFiles(it.nested_items)
              ELSE << >>) \o LinkedFiles(Tail(its))

\* item by item, a link without location has become a draft chapter
RECURSIVE DraftsLoaded(_, _)
DraftsLoaded(its, bookitems) ==
    /\ Len(its) = Len(bookitems)
    /\ \A i \in 1..Len(its) :
           its[i].kind = "Link" =>
               /\ bookitems[i].kind = "Chapter"
               /\ its[i].location = None =>
                      /\ bookitems[i].path = None
                      /\ bookitems[i].source_path = None
                      /\ bookitems[i].content = << >>
               /\ DraftsLoaded(its[i].nested_items, bookitems[i].sub_items)

RECURSIVE ChaptersOf(_)
ChaptersOf(bookitems) ==
    IF bookitems = << >> THEN << >>
    ELSE (IF Head(bookitems).kind = "Chapter"
          THEN <<Head(bookitems)>> \o ChaptersOf(Head(bookitems).sub_items)
          ELSE << >>) \o ChaptersOf(Tail(bookitems))

EmptyLinkNext == NextIsStart("Link") /\ Unwrap(next_event.ev).s = << >>

\* C8: a link with an empty destination read in the prefix, in a numbered item
\* at any depth or in the suffix becomes a Link with location None; the loader
\* turns every Link with location None into a Chapter with path = None,
\* source_path = None and empty content, and opens only the files of the links
\* that have a location; in a loaded Book every chapter with path = None has
\* empty content and every other chapter has path = source_path.
C8_DraftLinks ==
    /\ [][ /\ (pc = "parse_affix_prefix" /\ EmptyLinkNext) =>
                  /\ Len(prefix_chapters') = Len(prefix_chapters) + 1
                  /\ LastOf(prefix_chapters').kind = "Link"
                  /\ LastOf(prefix_chapters').location = None
           /\ (pc = "parse_affix_suffix" /\ EmptyLinkNext) =>
                  /\ Len(suffix_chapters') = Len(suffix_chapters) + 1
                  /\ LastOf(suffix_chapters').kind = "Link"
                  /\ LastOf(suffix_chapters').location = None
           /\ (pc = "parse_nested_item" /\ EmptyLinkNext) =>
                  /\ Len(levels') = Len(levels)
                  /\ Len(LastOf(levels').items) = Len(LastOf(levels).items) + 1
                  /\ LastOf(LastOf(levels').items).kind = "Link"
                  /\ LastOf(LastOf(levels').items).location = None ]_vars
    /\ [](IsSome(book) =>
            /\ DraftsLoaded(AllItems(Unwrap(summary)), Unwrap(book).sections)
            /\ opened = LinkedFiles(AllItems(Unwrap(summary)))
            /\ \A i \in 1..Len(ChaptersOf(Unwrap(book).sections)) :
                   LET ch == ChaptersOf(Unwrap(book).sections)[i]
                   IN  IF ch.path = None THEN ch.content = << >>
                       ELSE ch.path = ch.source_path)
    /\ [](\A i \in 1..Len(opened) :
              opened[i] \in {join(SrcDir, l) : l \in LinkedLocations(AllItems(Unwrap(summary)))})

\* C8 witness: a loaded book with a draft chapter from the prefix and a draft
\* chapter nested below a numbered chapter, next to chapters read from files
C8_Witness ==
    /\ IsSome(book)
    /\ opened # << >>
    /\ \E i, j \in 1..Len(ChaptersOf(Unwrap(book).sections)) :
           LET a == ChaptersOf(Unwrap(book).sections)[i]
               b == ChaptersOf(Unwrap(book).sections)[j]
           IN  /\ a.path = None /\ a.number = None
               /\ b.path = None /\ IsSome(b.number) /\ Len(Unwrap(b.number)) = 2

\* every item of a tree of book items, parents before their sub_items
RECURSIVE ItemsOf(_)
ItemsOf(bookitems) ==
    IF bookitems = << >> THEN << >>
    ELSE <<Head(bookitems)>>
         \o (IF Head(bookitems).kind = "Chapter" THEN ItemsOf(Head(bookitems).sub_items)
             ELSE << >>)
         \o ItemsOf(Tail(bookitems))

NonDraft(item) == item.kind = "Chapter" /\ item.path # None

NonDraftChapters(b) == SelectSeq(ChaptersOf(b.sections), NonDraft)

ChapterPieces == SelectSeq(print_content, LAMBDA piece : piece.kind = "chapter")

\* C9: an iteration of the render loop over a draft chapter, a separator or a
\* part title writes no file and appends nothing to the print content; every
\* file written is the output file of a non-draft chapter of the book (or the
\* index.ftd written with the first of them), every chapter in the print content
\* is a non-draft chapter of the book, and a render pass that ends has rendered
\* exactly the non-draft chapters, in the order of Book::iter().
C9_OnlyNonDraftRendered ==
    /\ [][(pc = "render" /\ queue # << >> /\ ~NonDraft(Head(queue))) =>
              /\ written' = written
              /\ print_content' = print_content
              /\ pc' = "render" ]_vars
    /\ [](pc \in {"render", "rendered", "render_err"} =>
            LET chapters == NonDraftChapters(Unwrap(book))
                paths == {chapters[i].path : i \in 1..Len(chapters)}
            IN  /\ \A i \in 1..Len(written) :
                       \/ written[i] = IndexFtd
                       \/ \E q \in paths : written[i] = with_extension(Unwrap(q), ".ftd")
                /\ \A i \in 1..Len(ChapterPieces) : Some(ChapterPieces[i].path) \in paths
                /\ Len(ChapterPieces) <= Len(chapters)
                /\ pc = "rendered" =>
                       ChapterPieces = [i \in 1..Len(chapters) |-> ChapterPiece(chapters[i])])

\* C9 witness: a render pass has ended over a book that holds a separator, a
\* part title and a draft chapter nested below a chapter that was written
C9_Witness ==
    /\ pc = "rendered"
    /\ written # << >>
    /\ LET all == ItemsOf(Unwrap(book).sections)
       IN  /\ \E i \in 1..Len(all) : all[i].kind = "Separator"
           /\ \E i \in 1..Len(all) : all[i].kind = "PartTitle"
           /\ \E i \in 1..Len(all) :
                  /\ all[i].kind = "Chapter" /\ all[i].path = None
                  /\ all[i].parent_names # << >>

\* item for item, the book items are the images of the summary items
RECURSIVE Mirrors(_, _)
Mirrors(its, bookitems) ==
    /\ Len(bookitems) = Len(its)
    /\ \A i \in 1..Len(its) :
           CASE its[i].kind = "Link" ->
                    /\ bookitems[i].kind = "Chapter"
                    /\ bookitems[i].name = its[i].name
                    /\ bookitems[i].number = its[i].number
                    /\ Mirrors(its[i].nested_items, bookitems[i].sub_items)
             [] its[i].kind = "Separator" -> bookitems[i] = BookSeparator
             [] its[i].kind = "PartTitle" -> bookitems[i] = BookPartTitle(its[i].name)

\* C10: when load_book_from_disk succeeds, Book.sections is item for item the
\* image of prefix_chapters ++ numbered_chapters ++ suffix_chapters (a Link as a
\* Chapter of the same name and number, a Separator as a Separator, a PartTitle
\* as a PartTitle of the same text), and every Chapter's sub_items is in the
\* same way the image of its Link's nested_items.
C10_BookMirrorsSummary ==
    IsSome(book) =>
        LET s == Unwrap(summary)
        IN  Mirrors(s.prefix_chapters \o s.numbered_chapters \o s.suffix_chapters,
                    Unwrap(book).sections)

\* C10 witness: a loaded book whose summary has a prefix link, a numbered link
\* with nested links, and suffix links other than the prefix's
C10_Witness ==
    /\ IsSome(book)
    /\ LET s == Unwrap(summary)
       IN  /\ LinksOf(s.prefix_chapters) # << >>
           /\ LinksOf(s.suffix_chapters) # << >>
           /\ s.prefix_chapters # s.suffix_chapters
           /\ \E i \in 1..Len(s.numbered_chapters) :
                  /\ s.numbered_chapters[i].kind = "Link"
                  /\ s.numbered_chapters[i].nested_items # << >>

\* every chapter of the tree carries the names of its ancestors, outermost first
RECURSIVE ParentNamesFollow(_, _)
ParentNamesFollow(bookitems, ancestors) ==
    \A i \in 1..Len(bookitems) :
        bookitems[i].kind = "Chapter" =>
            /\ bookitems[i].parent_names = ancestors
            /\ ParentNamesFollow(bookitems[i].sub_items,
                                 Append(ancestors, bookitems[i].name))

\* C11: in every loaded Book each chapter's parent_names is the sequence of the
\* names of its ancestor chapters, from the top-level ancestor down to its
\* parent: empty for a top-level chapter, as long as the chapter is deep, and
\* without the names of its siblings.
C11_ParentNames ==
    IsSome(book) => ParentNamesFollow(Unwrap(book).sections, << >>)

\* C11 witness: a loaded book with a chapter two levels down, whose parent has a
\* sibling
C11_Witness ==
    /\ IsSome(book)
    /\ \E i \in 1..Len(ChaptersOf(Unwrap(book).sections)) :
           Len(ChaptersOf(Unwrap(book).sections)[i].parent_names) = 2
    /\ Len(SelectSeq(Unwrap(book).sections, LAMBDA it : it.kind = "Chapter")) >= 2

\* load_book_from_disk has returned
LoadReturned == pc \in {"loaded", "load_err", "mutated"}

\* the positions, in the order the loader visits the links, of the chapter files
\* that are missing or cannot be read
FailingFiles ==
    LET files == LinkedFiles(AllItems(Unwrap(summary)))
    IN  {i \in 1..Len(files) : FileKind(disk, files[i]) \in {"missing", "unreadable"}}

RECURSIVE PathsRelative(_, _)
PathsRelative(its, bookitems) ==
    \A i \in 1..Len(its) :
        (its[i].kind = "Link" /\ i <= Len(bookitems)) =>
            /\ IsSome(its[i].location) =>
                   /\ IsSome(bookitems[i].path)
                   /\ ~is_absolute(Unwrap(bookitems[i].path))
                   /\ join(SrcDir, Unwrap(bookitems[i].path))
                          = join(SrcDir, Unwrap(its[i].location))
            /\ PathsRelative(its[i].nested_items, bookitems[i].sub_items)

\* C13 as stated: load_book_from_disk yields a Book or an Error for every
\* summary and state of the files, a link to a readable file at an absolute path
\* outside the source directory included, and never aborts; every non-draft
\* chapter's path is its location relative to the source directory.
C13_BookOrError ==
    /\ pc # InsideBookPanic
    /\ LoadReturned => (IsSome(book) <=> ~IsSome(load_err))
    /\ IsSome(book) => PathsRelative(AllItems(Unwrap(summary)), Unwrap(book).sections)

\* C13, what the code does: it returns a Book or an Error, with relative paths
\* in the Book, unless it has read a file whose absolute location is not below
\* the source directory: there it aborts.
C13_AbortsOutsideSourceDir ==
    /\ pc = InsideBookPanic =>
           /\ book = None /\ load_err = None
           /\ opened # << >>
           /\ FileKind(disk, LastOf(opened)) \in {"text", "bom"}
           /\ strip_prefix(LastOf(opened), SrcDir) = None
    /\ LoadReturned => (IsSome(book) <=> ~IsSome(load_err))
    /\ IsSome(book) =>
           /\ PathsRelative(AllItems(Unwrap(summary)), Unwrap(book).sections)
           /\ \A i \in 1..Len(opened) : strip_prefix(opened[i], SrcDir) # None

\* C13 witness: the loader has aborted on the file outside the source directory,
\* after it had read a file at an absolute path inside it
C13_Witness ==
    /\ pc = InsideBookPanic
    /\ opened = <<Inside, Outside>>

\* every link of a tree of summary items, at any depth
RECURSIVE LinksDeep(_)
LinksDeep(its) ==
    IF its = << >> THEN << >>
    ELSE (IF Head(its).kind = "Link"
          THEN <<Head(its)>> \o LinksDeep(Head(its).nested_items) ELSE << >>)
         \o LinksDeep(Tail(its))

\* the one line '# ' + name + newline, the name with '<' as '&lt;' and '>' as '&gt;'
IsHeadingOf(content, name) ==
    /\ Len(content) = Len(name) + 2
    /\ content[1] = "# "
    /\ content[Len(content)] = "\n"
    /\ \A i \in 1..Len(name) :
           content[i + 1] = (CASE name[i] = "<" -> "&lt;"
                               [] name[i] = ">" -> "&gt;"
                               [] OTHER -> name[i])

\* C14: after create_missing has succeeded every location linked from the
\* summary, at any depth, exists; a file that did not exist holds exactly the
\* heading line '# ' + the name of a link to it, with '<' and '>' escaped; a
\* file that existed is unchanged; and no file other than the linked locations,
\* so none for a draft link, has been created.
C14_CreateMissing ==
    pc = "created" =>
        LET links == LinksDeep(AllItems(Unwrap(summary)))
        IN  /\ DOMAIN disk = LinkedPaths(Unwrap(summary))
            /\ DOMAIN disk0 = DOMAIN disk
            /\ \A f \in DOMAIN disk :
                   /\ FileKind(disk, f) \notin {"missing", "uncreatable"}
                   /\ IF FileKind(disk0, f) \in {"missing", "uncreatable"}
                      THEN \E i \in 1..Len(links) :
                               /\ IsSome(links[i].location)
                               /\ join(SrcDir, Unwrap(links[i].location)) = f
                               /\ IsHeadingOf(disk[f].content, links[i].name)
                      ELSE disk[f] = disk0[f]

\* C14 witness: create_missing has created the file of the link '1 < 2 > 0' and
\* left alone the existing file of the link nested below it
C14_Witness ==
    /\ pc = "created"
    /\ events = InOrder(EscapedList)
    /\ FileKind(disk0, join(SrcDir, Ch1)) = "missing"
    /\ FileKind(disk0, join(SrcDir, Ch2)) = "bom"
    /\ disk[join(SrcDir, Ch1)].content = <<"# ", "1 ", "&lt;", " 2 ", "&gt;", " 0", "\n">>

\* C15: Book::iter() yields the items of the book tree in pre-order, each node
\* once: a chapter before its sub_items, its descendants before its next
\* sibling, siblings in stored order, as many items as there are nodes, and then
\* ends.  Each step of the loop over the iterator yields the first of the items
\* still to come and leaves the rest to come; the book is unchanged by it, so
\* that a new iterator over the book yields the same sequence.
C15_IterPreOrder ==
    /\ [](IsSome(book) =>
            BookItemsCollect(BookIter(Unwrap(book))) = ItemsOf(Unwrap(book).sections))
    /\ [](pc = "rendered" => queue = << >>)
    /\ [][(pc = "loaded" /\ pc' = "render") =>
              ItemsOf(queue') = ItemsOf(Unwrap(book).sections)]_vars
    /\ [][(pc = "render" /\ queue # << >>) =>
              /\ BookItemsNext(queue).item = Head(ItemsOf(queue))
              /\ ItemsOf(queue') = Tail(ItemsOf(queue))
              /\ book' = book ]_vars

\* C15 witness: the loop has come to the end of the iterator over the book of
\* the three-level list, whose first chapter has a sibling after its descendants
C15_Witness ==
    /\ pc = "rendered"
    /\ events = InOrder(DeepList)
    /\ Len(ItemsOf(Unwrap(book).sections)) = 4
    /\ Len(Unwrap(book).sections) = 2

\* the fields of an item that are its own: not its sub_items
Own(item) == [item EXCEPT !.sub_items = << >>]

\* a tree of book items with op applied to every item
RECURSIVE ApplyAll(_, _)
ApplyAll(op, bookitems) ==
    [i \in 1..Len(bookitems) |->
        func(op, [bookitems[i] EXCEPT !.sub_items = ApplyAll(op, @)])]

\* the items of a tree, each after all of its descendants, siblings in order
RECURSIVE PostOrder(_)
PostOrder(bookitems) ==
    IF bookitems = << >> THEN << >>
    ELSE PostOrder(Head(bookitems).sub_items) \o <<Head(bookitems)>>
         \o PostOrder(Tail(bookitems))

OwnOf(listing) == [i \in 1..Len(listing) |-> Own(listing[i])]

\* C16: Book::for_each_mut calls the operation once on every item of the tree:
\* on a chapter after all of its descendants, on siblings in stored order; the
\* items it is called on are the items Book::iter() yields, each once; and the
\* book afterwards is the book with the operation applied to every item.
C16_ForEachMutPostOrder ==
    IsSome(mutated) =>
        LET m == Unwrap(mutated)
            before == Unwrap(book).sections
            yielded == BookItemsCollect(BookIter(Unwrap(book)))
        IN  /\ OwnOf(m.visited) = OwnOf(PostOrder(before))
            /\ Len(m.visited) = Len(yielded)
            /\ {Own(m.visited[i]) : i \in 1..Len(m.visited)}
                   = {Own(yielded[i]) : i \in 1..Len(yielded)}
            /\ \A i \in 1..Len(m.visited) :
                   m.visited[i].sub_items = ApplyAll(m.func, PostOrder(before)[i].sub_items)
            /\ m.sections = ApplyAll(m.func, before)

\* C16 witness: the operation has run over the book of the three-level list and
\* was called on the innermost chapter first and on the draft chapter last
C16_Witness ==
    /\ IsSome(mutated)
    /\ events = InOrder(DeepList)
    /\ Len(Unwrap(mutated).visited) = 4
    /\ Unwrap(mutated).visited[1].name = <<"D">>
    /\ Unwrap(mutated).visited[3].name = <<"A">>
    /\ Unwrap(mutated).visited[4].name = <<"C">>

----------------------------------------------------------------------------
(* Properties of the link-rewriting pass and of the code-block headers       *)

\* the events adjust_links has been applied to so far, by their position
Adjusted == 1..Len(adjusted)

\* adjust_links has rewritten the link start with destination dest of a chapter at path
Rewrote(dest, path) ==
    /\ md_path = path
    /\ \E i \in Adjusted : cleaned[i] = StartLink(dest)

\* C17 as documented: with the source path guide/intro.md the fragment-only destination
\* #foo becomes /guide/intro.ftd#foo, the fragment directly following the swapped path
C17_FragmentDirectlyFollows ==
    md_path = Some(GuideIntro)
        => \A i \in Adjusted :
               cleaned[i] = StartLink(Fragment)
                   => adjusted[i] = StartLink(<<"/", "guide", "/", "intro", ".ftd", "#", "foo">>)

\* C17 as the code behaves: with the source path guide/intro.md the fragment-only
\* destination #foo becomes /guide/intro.ftd/#foo, a slash standing between the swapped
\* path and the fragment
C17_FragmentAfterSlash ==
    md_path = Some(GuideIntro)
        => \A i \in Adjusted :
               cleaned[i] = StartLink(Fragment)
                   => adjusted[i]
                          = StartLink(<<"/", "guide", "/", "intro", ".ftd", "/", "#", "foo">>)

C17_Witness == Rewrote(Fragment, Some(GuideIntro))

\* C18 as documented: with the source path guide/intro.md the relative destination
\* ./other.md#section becomes guide/other.ftd#section
C18_RelativeNormalised ==
    md_path = Some(GuideIntro)
        => \A i \in Adjusted :
               cleaned[i] = StartLink(RelativeMd)
                   => adjusted[i] = StartLink(<<"guide", "/", "other", ".ftd", "#", "section">>)

\* C18: with the source path guide/intro.md the relative destination ./other.md#section
\* becomes guide/./other.ftd#section: the parent directory of the source path and a
\* slash, then the destination as written (its leading ./ kept) with .md swapped for
\* .ftd, then the fragment
C18_RelativePrefixed ==
    md_path = Some(GuideIntro)
        => \A i \in Adjusted :
               cleaned[i] = StartLink(RelativeMd)
                   => adjusted[i]
                          = StartLink(<<"guide", "/", "./", "other", ".ftd", "#", "section">>)

C18_Witness == Rewrote(RelativeMd, Some(GuideIntro))

\* dest begins with a URL scheme (a letter, then letters, digits, '+', '-' or '.', up to
\* a colon; the letters of either case), and with one in lower case
BeginsWithScheme(dest) ==
    Len(dest) >= 2 /\ dest[1] \in {"https", "HTTPS", "mailto"} /\ dest[2] = ":"
BeginsWithLowerScheme(dest) ==
    Len(dest) >= 2 /\ dest[1] \in {"https", "mailto"} /\ dest[2] = ":"

IsLinkOrImage(event) ==
    event.type = "Start" /\ event.tag \in DOMAIN LinkTypes \cup {"Image"}
IsFragmentOnly(dest) == dest # << >> /\ dest[1] = "#"

\* (b) and (c) of C19: without a source path a fragment-only destination is unchanged,
\* and an event that is no link start, image start or raw HTML is unchanged
FragmentsAndOthersUnchanged ==
    \A i \in Adjusted :
        /\ (IsLinkOrImage(cleaned[i]) /\ IsFragmentOnly(cleaned[i].s) /\ md_path = None)
               => adjusted[i] = cleaned[i]
        /\ (~IsLinkOrImage(cleaned[i]) /\ cleaned[i].type # "Html")
               => adjusted[i] = cleaned[i]

\* C19 as documented: the link-rewriting pass leaves unchanged (a) every link or image
\* destination that begins with a URL scheme, with or without a source path, (b) every
\* fragment-only destination when no source path is known, (c) every event that is no
\* link start, image start or raw HTML
C19_SchemeLinksUnchanged ==
    /\ \A i \in Adjusted :
           (IsLinkOrImage(cleaned[i]) /\ BeginsWithScheme(cleaned[i].s))
               => adjusted[i] = cleaned[i]
    /\ FragmentsAndOthersUnchanged

\* C19 as the code behaves: (b) and (c) hold, and (a) holds for the schemes written in
\* lower case; a destination whose scheme is in upper case, HTTPS://x.com/y.md, is
\* treated as a relative link: .md is swapped for .ftd and the parent directory of the
\* source path, when there is one, is put in front
C19_LowerSchemeLinksUnchanged ==
    /\ \A i \in Adjusted :
           /\ (IsLinkOrImage(cleaned[i]) /\ BeginsWithLowerScheme(cleaned[i].s))
                  => adjusted[i] = cleaned[i]
           /\ (IsLinkOrImage(cleaned[i]) /\ cleaned[i].s = UpperScheme)
                  => /\ adjusted[i].s # cleaned[i].s
                     /\ md_path = None
                            => adjusted[i].s = <<"HTTPS", ":", "//x.com/y", ".ftd">>
                     /\ md_path = Some(GuideIntro)
                            => adjusted[i].s
                                   = <<"guide", "/", "HTTPS", ":", "//x.com/y", ".ftd">>
    /\ FragmentsAndOthersUnchanged

\* a link with an upper-case scheme, a link with a lower-case scheme, a fragment-only
\* link and an event of another kind have passed adjust_links without a source path
C19_Witness ==
    /\ md_path = None
    /\ Len(adjusted) = 2
    /\ cleaned[1] = StartImage(UpperScheme)
    /\ cleaned[2] = StartLink(Fragment)

\* the info string with every whitespace character other than space and tab left out,
\* and then each space and tab replaced by a comma
Normalized(info) ==
    LET kept == SelectSeq(info, LAMBDA ch : ch \in {" ", "\t"} \/ ~is_whitespace(ch))
    IN  [k \in 1..Len(kept) |-> IF kept[k] \in {" ", "\t"} THEN "," ELSE kept[k]]

IsFencedStart(event) == event.type = "Start" /\ event.tag = "CodeBlockFenced"

\* C20: for every fenced code-block start the info string returned is the original with
\* each space and tab replaced by a comma and every other whitespace character removed,
\* so it holds no whitespace ('lang rust,edition2021' becomes 'lang,rust,edition2021');
\* normalizing the result again changes nothing; every other event, the start of an
\* indented code block included, is returned unchanged
C20_CodeblockHeaders ==
    \A i \in 1..Len(cleaned) :
        IF IsFencedStart(md_events[i])
        THEN /\ cleaned[i] = StartFenced(Normalized(md_events[i].s))
             /\ \A k \in 1..Len(cleaned[i].s) : ~is_whitespace(cleaned[i].s[k])
             /\ clean_codeblock_headers(cleaned[i]) = cleaned[i]
             /\ md_events[i].s = InfoExample
                    => cleaned[i].s = <<"lang", ",", "rust", ",", "edition2021">>
        ELSE cleaned[i] = md_events[i]

\* a fenced code block whose info string holds a space, a tab and another whitespace
\* character has been cleaned
C20_Witness ==
    /\ Len(cleaned) = 1
    /\ md_events[1] = StartFenced(<<"\t", "\f", " ">>)
    /\ cleaned[1].s = <<",", ",">>


\* ------------------------------------------------------------------------
\* utils/string.rs: take_lines
\* ------------------------------------------------------------------------

\* the longest string take_lines is given
MaxTextLen == 3

\* usize is modelled UsizeBits wide
UsizeBits == 3

UsizeMax == 2 ^ UsizeBits - 1

\* the characters of the strings: two letters and the line feed
TextChars == {"a", "b", "\n"}

Texts == UNION {[1..n -> TextChars] : n \in 0..MaxTextLen}

\* std::ops::Bound<usize>
Included(n) == [kind |-> "Included", n |-> n]

Excluded(n) == [kind |-> "Excluded", n |-> n]

Unbounded == [kind |-> "Unbounded", n |-> 0]

\* the line numbers the ranges name: around the lines of the text, and usize::MAX
RangeEnds == 0..(MaxTextLen + 1) \cup {UsizeMax}

Bounds == {Included(n) : n \in RangeEnds} \cup {Excluded(n) : n \in RangeEnds} \cup {Unbounded}

Ranges == [start : Bounds, end : Bounds]

\* str::lines: the text is split at each line feed; a final line feed ends the
\* last line and begins none
RECURSIVE LinesFrom(_, _)
LinesFrom(s, cur) ==
    IF s = << >> THEN (IF cur = << >> THEN << >> ELSE <<cur>>)
    ELSE IF Head(s) = "\n" THEN <<cur>> \o LinesFrom(Tail(s), << >>)
    ELSE LinesFrom(Tail(s), Append(cur, Head(s)))

lines(s) == LinesFrom(s, << >>)

\* .collect::<Vec<_>>().join("\n")
RECURSIVE JoinLines(_)
JoinLines(ls) ==
    IF ls = << >> THEN << >>
    ELSE IF Len(ls) = 1 THEN ls[1]
    ELSE ls[1] \o <<"\n">> \o JoinLines(Tail(ls))

\* Iterator::skip and Iterator::take
skip(ls, n) == SubSeq(ls, n + 1, Len(ls))

take(ls, n) == SubSeq(ls, 1, IF n < Len(ls) THEN n ELSE Len(ls))

saturating_sub(a, b) == IF a > b THEN a - b ELSE 0

\* take_lines(s, range); n + 1 and end + 1 are usize additions, which panic
\* when they overflow in a build with overflow checks and wrap in one without
take_lines(s, range, checks) ==
    LET start_overflows == range.start.kind = "Excluded" /\ range.start.n = UsizeMax
        end_overflows == range.end.kind = "Included" /\ range.end.n = UsizeMax
        start == CASE range.start.kind = "Excluded" -> (range.start.n + 1) % (UsizeMax + 1)
                   [] range.start.kind = "Included" -> range.start.n
                   [] range.start.kind = "Unbounded" -> 0
        skipped == skip(lines(s), start)
        taken == CASE range.end.kind = "Excluded" ->
                        take(skipped, saturating_sub(range.end.n, start))
                   [] range.end.kind = "Included" ->
                        take(skipped, saturating_sub((range.end.n + 1) % (UsizeMax + 1), start))
                   [] range.end.kind = "Unbounded" -> skipped
    IN  IF checks /\ (start_overflows \/ end_overflows)
        THEN [panic |-> TRUE, out |-> << >>]
        ELSE [panic |-> FALSE, out |-> JoinLines(taken)]

\* take_lines is about to be called with a text and a range, in either build
LinesInit ==
    /\ overflow_checks \in BOOLEAN
    /\ tl_s \in Texts
    /\ tl_range \in Ranges
    /\ tl_out = None
    /\ IdAtRest
    /\ MainAtRest
    /\ PreAtRest
    /\ runs = << >>
    /\ AtRest("take_lines")
    /\ MdAtRest

TakeLines ==
    /\ pc = "take_lines"
    /\ tl_out' = Some(take_lines(tl_s, tl_range, overflow_checks))
    /\ pc' = "taken"
    /\ UNCHANGED <<overflow_checks, tl_s, tl_range, idVars, mainVars, runs, preVars>>
    /\ UNCHANGED <<src, events, stream, offset, back, title, prefix_chapters,
                   numbered_chapters, suffix_chapters, parts, root_items, part_title,
                   items, first, other_tag, skip_start, levels, summary, err>>
    /\ UNCHANGED <<bookVars, renderVars, mdVars>>

LinesNext == TakeLines

LinesSpec == LinesInit /\ [][LinesNext]_vars

\* the 0-based line number i lies in the range
InRange(i, range) ==
    /\ \/ range.start.kind = "Unbounded"
       \/ range.start.kind = "Included" /\ i >= range.start.n
       \/ range.start.kind = "Excluded" /\ i > range.start.n
    /\ \/ range.end.kind = "Unbounded"
       \/ range.end.kind = "Included" /\ i <= range.end.n
       \/ range.end.kind = "Excluded" /\ i < range.end.n

\* the lines of s whose 0-based index lies in the range, in order
Selected(s, range) ==
    LET ls == lines(s)
        idx == {i \in 1..Len(ls) : InRange(i - 1, range)}
        lo == CHOOSE i \in idx : \A j \in idx : i <= j
    IN  IF idx = {} THEN << >> ELSE [k \in 1..Cardinality(idx) |-> ls[lo + k - 1]]

Taken == pc = "taken"

\* C21 as stated: take_lines(s, r) is the selected lines of s joined by single
\* newlines, and splitting the result into lines again recovers exactly the
\* selected lines
C21_TakeLinesRoundTrip ==
    Taken =>
        /\ ~Unwrap(tl_out).panic
        /\ Unwrap(tl_out).out = JoinLines(Selected(tl_s, tl_range))
        /\ lines(Unwrap(tl_out).out) = Selected(tl_s, tl_range)

\* the range names usize::MAX where take_lines adds one to it
Overflows(range) ==
    \/ range.start.kind = "Excluded" /\ range.start.n = UsizeMax
    \/ range.end.kind = "Included" /\ range.end.n = UsizeMax

\* C21, what the code does: unless a bound of the range overflows,
\* take_lines(s, r) is the selected lines of s joined by single newlines;
\* splitting the result into lines recovers the selected lines exactly when
\* the last selected line is not empty, and loses that last line otherwise
C21_TakeLinesJoinsSelected ==
    Taken /\ ~Overflows(tl_range) =>
        LET sel == Selected(tl_s, tl_range)
            out == Unwrap(tl_out).out
        IN  /\ ~Unwrap(tl_out).panic
            /\ out = JoinLines(sel)
            /\ IF sel = << >> \/ sel[Len(sel)] # << >>
               THEN lines(out) = sel
               ELSE lines(out) = SubSeq(sel, 1, Len(sel) - 1)

\* several lines are selected, one of them empty, and the range reaches past the last line
C21_Witness ==
    /\ Taken
    /\ ~Overflows(tl_range)
    /\ Len(Selected(tl_s, tl_range)) = 2
    /\ Selected(tl_s, tl_range)[1] = << >>
    /\ tl_range.end.kind = "Excluded"
    /\ tl_range.end.n > Len(lines(tl_s))
    /\ tl_range.start = Included(1)


\* ------------------------------------------------------------------------
\* utils/mod.rs: normalize_id, id_from_content, unique_id_from_content
\* ------------------------------------------------------------------------

\* most calls of unique_id_from_content that share one id_counter
MaxCalls == 3

\* char::is_alphanumeric, char::is_whitespace and char::to_ascii_lowercase on
\* the characters of the contents
is_alphanumeric(ch) == ch \in {"a", "b", "A", "1", "2"}

to_ascii_lowercase(ch) == IF ch = "A" THEN "a" ELSE ch

\* normalize_id: letters, digits, '_' and '-' are kept in lower case, whitespace
\* becomes '-', every other character is dropped
RECURSIVE normalize_id(_)
normalize_id(content) ==
    IF content = << >> THEN << >>
    ELSE LET ch == Head(content)
             kept == IF is_alphanumeric(ch) \/ ch = "_" \/ ch = "-"
                       THEN <<to_ascii_lowercase(ch)>>
                     ELSE IF is_whitespace(ch) \/ ch = "\n" THEN <<"-">>
                     ELSE << >>
         IN  kept \o normalize_id(Tail(content))

\* HTML.replace_all(&content, ""), HTML being (<.*?>): from each '<' up to the
\* nearest '>' on the same line
RECURSIVE StripHtml(_)
StripHtml(content) ==
    IF content = << >> THEN << >>
    ELSE LET closes == {j \in 2..Len(content) :
                            /\ content[j] = ">"
                            /\ \A i \in 2..(j - 1) : content[i] # "\n" /\ content[i] # ">"}
         IN  IF Head(content) = "<" /\ closes # {}
             THEN StripHtml(SubSeq(content, (CHOOSE j \in closes : TRUE) + 1, Len(content)))
             ELSE <<Head(content)>> \o StripHtml(Tail(content))

\* str::replace(sub, ""): every occurrence of sub, from left to right
RECURSIVE Remove(_, _)
Remove(content, sub) ==
    IF Len(content) < Len(sub) THEN content
    ELSE IF SubSeq(content, 1, Len(sub)) = sub
         THEN Remove(SubSeq(content, Len(sub) + 1, Len(content)), sub)
         ELSE <<Head(content)>> \o Remove(Tail(content), sub)

REPL_SUB ==
    << <<"&", "l", "t", ";">>, <<"&", "g", "t", ";">>, <<"&", "a", "m", "p", ";">>,
       <<"&", "#", "3", "9", ";">>, <<"&", "q", "u", "o", "t", ";">> >>

RECURSIVE RemoveEach(_, _)
RemoveEach(content, subs) ==
    IF subs = << >> THEN content ELSE RemoveEach(Remove(content, Head(subs)), Tail(subs))

\* str::trim and str::trim_start_matches('#')
RECURSIVE trim_start(_)
trim_start(content) ==
    IF content # << >> /\ (is_whitespace(Head(content)) \/ Head(content) = "\n")
    THEN trim_start(Tail(content)) ELSE content

RECURSIVE trim_end(_)
trim_end(content) ==
    IF content # << >> /\ (is_whitespace(content[Len(content)]) \/ content[Len(content)] = "\n")
    THEN trim_end(SubSeq(content, 1, Len(content) - 1)) ELSE content

trim(content) == trim_end(trim_start(content))

RECURSIVE trim_hashes(_)
trim_hashes(content) ==
    IF content # << >> /\ Head(content) = "#" THEN trim_hashes(Tail(content)) ELSE content

id_from_content(content) ==
    normalize_id(trim(trim_hashes(trim(RemoveEach(StripHtml(content), REPL_SUB)))))

\* id_counter.entry(id).or_insert(0), read
Count(counter, id) == IF id \in DOMAIN counter THEN counter[id] ELSE 0

\* unique_id_from_content(content, id_counter): the ID returned and the counter left
unique_id_from_content(content, counter) ==
    LET id == id_from_content(content)
        id_count == Count(counter, id)
    IN  [unique_id |-> IF id_count = 0 THEN id ELSE id \o <<"-">> \o Decimal(id_count),
         id_counter |-> [k \in DOMAIN counter \cup {id} |->
                            IF k = id THEN id_count + 1 ELSE counter[k]]]

\* contents of headings: plain, in upper case, with inner and outer whitespace,
\* with leading hashes, with punctuation, with a tag, with an entity, empty, and
\* ending in a hyphen and a number
Contents ==
    { <<"a">>, <<"A">>, <<"b">>, << >>, <<"a", " ", "b">>, <<" ", "a", "\t">>,
      <<"#", "#", " ", "a">>, <<"a", "!">>, <<"<", "b", ">", "a", "<", "/", "b", ">">>,
      <<"a", "&", "l", "t", ";">>, <<"a", "-", "1">>, <<"a", " ", "1">>,
      <<"a", "-", "2">>, <<"a", "-", "1", "-", "1">>, <<"-", "1">>, <<"a", "_", "b">> }

\* a renderer has made an empty id_counter
IdInit ==
    /\ TlAtRest
    /\ MainAtRest
    /\ PreAtRest
    /\ runs = << >>
    /\ id_counter = << >>
    /\ id_calls = << >>
    /\ id_returned = << >>
    /\ AtRest("unique_id")
    /\ MdAtRest

UniqueIdFromContent ==
    /\ pc = "unique_id"
    /\ Len(id_calls) < MaxCalls
    /\ \E content \in Contents :
         LET r == unique_id_from_content(content, id_counter)
         IN  /\ id_calls' = Append(id_calls, content)
             /\ id_returned' = Append(id_returned, r.unique_id)
             /\ id_counter' = r.id_counter
    /\ UNCHANGED <<tlVars, mainVars, runs, preVars>>
    /\ UNCHANGED <<parserVars, bookVars, renderVars, mdVars>>

IdNext == UniqueIdFromContent

IdSpec == IdInit /\ [][IdNext]_vars

\* C22 as stated: the IDs returned by calls that share one id_counter are
\* pairwise distinct, whatever the contents are
C22_UniqueIds ==
    \A i, j \in 1..Len(id_returned) : i # j => id_returned[i] # id_returned[j]

\* the id ends in a hyphen and a decimal number
EndsInNumber(id) ==
    \E n \in 1..MaxCalls :
        /\ Len(id) > Len(Decimal(n))
        /\ SubSeq(id, Len(id) - Len(Decimal(n)), Len(id)) = <<"-">> \o Decimal(n)

\* how many of the first n calls had content with this normalized id
Earlier(id, n) == Cardinality({i \in 1..n : id_from_content(id_calls[i]) = id})

\* C22, what the code does: a call returns the normalized id of its content
\* when no earlier call had that id, and the id, a hyphen and the number of
\* earlier calls with that id otherwise; the returned IDs are pairwise
\* distinct as long as no content's normalized id ends in a hyphen and a number
C22_UniqueIdsOfPlainContents ==
    /\ \A i \in 1..Len(id_returned) :
         LET id == id_from_content(id_calls[i])
             before == Earlier(id, i - 1)
         IN  id_returned[i] = IF before = 0 THEN id ELSE id \o <<"-">> \o Decimal(before)
    /\ (\A i \in 1..Len(id_calls) : ~EndsInNumber(id_from_content(id_calls[i])))
            => \A i, j \in 1..Len(id_returned) : i # j => id_returned[i] # id_returned[j]

\* three headings with the same normalized id, written differently, have got their IDs
C22_Witness ==
    /\ Len(id_returned) = 3
    /\ id_calls[1] # id_calls[2]
    /\ id_calls[2] # id_calls[3]
    /\ id_calls[1] # id_calls[3]
    /\ id_returned = << <<"a">>, <<"a", "-", "1">>, <<"a", "-", "2">> >>
    /\ id_counter[<<"a">>] = 3


\* ------------------------------------------------------------------------
\* utils/mod.rs: the loop of render_markdown_with_path
\* ------------------------------------------------------------------------

\* the loop body has run for one more event
Transpiled == transpiled' = transpiled + 1

\* result_str of render_to_docsite for the event the loop body is about to take
Emission == render_to_docsite(Handed[transpiled + 1], current_tag, tag_started).result_str

IsPrefix(a, b) == Len(a) <= Len(b) /\ SubSeq(b, 1, Len(a)) = a

\* C23: when tag_started is false after an event, the output grows by emission,
\* pending buffer and newline if current_tag is link, by pending buffer, emission
\* and newline if it is heading, and by pending buffer, newline and emission
\* otherwise; the pending buffer is empty afterwards; what is in the output stays
C23_OutputAssembly ==
    [][/\ IsPrefix(rendered_docsite, rendered_docsite')
       /\ (Transpiled /\ ~tag_started') =>
            /\ tag_parsed_string' = << >>
            /\ rendered_docsite' = rendered_docsite \o
                 (IF current_tag' = LinkTag THEN Emission \o tag_parsed_string \o <<"\n">>
                  ELSE IF current_tag' = Heading THEN tag_parsed_string \o Emission \o <<"\n">>
                  ELSE tag_parsed_string \o <<"\n">> \o Emission)]_vars

\* the sample chapter has been rendered: its heading by the heading branch, the
\* text of its link by the link branch before the reference, the rest by the third
C23_Witness ==
    /\ pc = "render_markdown_returned"
    /\ md_events = SampleChapter
    /\ IsPrefix(<<"-- ds.", "h1", ": ", " ", "Title", "\n", "\n",
                  "-- ds.markdown: ", "\n", "see",
                  "[", "other", "]", "(/", "other", "/)", "\n">>, rendered_docsite)


\* ------------------------------------------------------------------------
\* main.rs, cmd/build.rs: what the user sees of a failed build
\* ------------------------------------------------------------------------

BuildFailed == pc = "exit" /\ ~Unwrap(returned).ok

\* C24 as stated: when a build fails, the build command prints the error chain,
\* outermost context first and root cause last
C24_ErrorChainPrinted ==
    BuildFailed => stderr = log_backtrace(Unwrap(returned).chain)

\* C24, what the code does: main drops what execute returns; whether the build
\* succeeded or failed, nothing is logged when the process ends
C24_FailureDropped ==
    pc = "exit" => (returned # None /\ stderr = << >>)


\* a build has failed on a SUMMARY.md that does not parse, and the process has ended
C24_Witness ==
    /\ BuildFailed
    /\ Len(Unwrap(returned).chain) = 2
    /\ err # None
    /\ stderr = << >>


\* ------------------------------------------------------------------------
\* book/summary.rs: parse_summary called again
\* ------------------------------------------------------------------------

SameText(a, b) == a.src = b.src /\ a.events = b.events

\* C25: two calls of parse_summary on identical text return equal results, an equal
\* Summary or an error with the same line, column and message, whatever was
\* parsed between them
C25_ReparseEqual ==
    \A i, j \in 1..Len(runs) :
        SameText(runs[i], runs[j]) =>
            /\ runs[i].summary = runs[j].summary
            /\ runs[i].err = runs[j].err

\* the same text was parsed first and last, to a Summary, and a text that fails
\* to parse in between
C25_Witness ==
    /\ Len(runs) = 3
    /\ SameText(runs[1], runs[3])
    /\ runs[1].summary # None
    /\ Len(Unwrap(runs[1].summary).numbered_chapters) > 0
    /\ runs[2].err # None


\* ------------------------------------------------------------------------
\* book/summary.rs: the pushback slot of the parser
\* ------------------------------------------------------------------------

Parsing == pc \in ParsingStates

\* C26: the pushback slot holds at most one event and back() never finds it full;
\* the event in the slot is the last one taken from the stream, next_event
\* returns it without taking from the stream, and until it has been returned
\* again no further event is taken from the stream
C26_OnePushback ==
    /\ [](/\ Len(back) <= 1
          /\ pc # BackPanic
          /\ IsSome(back) =>
                /\ Unwrap(back).type # "Panic"
                /\ stream > 0
                /\ Unwrap(back) = events[stream]
                /\ next_event.ev = back
                /\ next_event.stream = stream)
    /\ [][(Parsing /\ IsSome(back)) =>
            /\ back' = None \/ back' = back
            /\ back' = back => stream' = stream]_vars

\* an event that was pushed back is in the slot while the numbered section is parsed
C26_Witness ==
    /\ pc = "parse_numbered"
    /\ IsSome(back)
    /\ IsStart(Unwrap(back), "List")
    /\ stream > 1


\* ------------------------------------------------------------------------
\* book/summary.rs: reads that bypass the pushback slot
\* ------------------------------------------------------------------------

\* the tag whose content the step is going to collect straight from the stream:
\* a link in parse_affix and in a list item, a heading in parse_title and parse_parts
Collects ==
    IF ~IsSome(next_event.ev) THEN None
    ELSE IF /\ pc \in {"parse_affix_prefix", "parse_affix_suffix", "parse_nested_item"}
            /\ IsStart(Unwrap(next_event.ev), "Link") THEN Some("Link")
    ELSE IF /\ pc \in {"parse_title", "parse_parts"}
            /\ IsStart(Unwrap(next_event.ev), "H1") THEN Some("H1")
    ELSE None

\* the position of the stream after the first End(tag) behind position n, or its end
AfterFirstEnd(n, tag) ==
    LET ends == {j \in (n + 1)..Len(events) : IsEnd(events[j], tag)}
    IN  IF ends = {} THEN Len(events) ELSE CHOOSE j \in ends : \A i \in ends : j <= i

\* C27: when the parser reads straight from the stream, the pushback slot is
\* empty: such a read begins behind the event next_event has just returned,
\* which was the one in the slot if the slot was full, it ends behind the first
\* end tag or at the end of the stream, and it leaves the slot empty; every
\* other step takes from the stream what next_event takes, so the events are
\* consumed in the order of the stream
C27_DirectReadsInOrder ==
    [][Parsing =>
        /\ stream' >= stream
        /\ IF IsSome(Collects)
           THEN /\ stream' = AfterFirstEnd(next_event.stream, Unwrap(Collects))
                /\ back' = None
                /\ IsSome(back) => (next_event.ev = back /\ next_event.stream = stream)
           ELSE /\ stream' = next_event.stream
                /\ IsSome(back') => Unwrap(back') = events[stream']]_vars

\* the start of a link was the first event, so parse_title pushed it back and
\* parse_affix took it from the slot; the link's content has then been read
\* straight from the stream, up to the end of the link
C27_Witness ==
    /\ pc = "parse_affix_prefix"
    /\ back = None
    /\ stream >= 2
    /\ IsStart(events[1], "Link")
    /\ IsEnd(events[stream], "Link")
    /\ Len(prefix_chapters) = 1


\* ------------------------------------------------------------------------
\* book/summary.rs: parse_summary returns
\* ------------------------------------------------------------------------

\* the parser is a sequential program: while parse_summary has not returned it
\* takes its next step
FairSpec == Init /\ [][Next]_vars /\ WF_vars(ParserNext)

\* C28: parse_summary terminates on every finite event stream: no step of the
\* parser gives an event back that was consumed, a step that consumes none hands
\* over to another loop or returns from a nested list, and in the end
\* parse_summary has returned
C28_Terminates ==
    /\ <>(~Parsing)
    /\ [][Parsing => Remaining' <= Remaining]_vars
    /\ [][(Parsing /\ Remaining' = Remaining) =>
            (pc' # pc \/ Len(levels') < Len(levels))]_vars

\* parse_summary has returned a Summary for a stream that begins with a list:
\* the start of the list was pushed back by parse_title, parse_affix, parse_parts
\* and parse_numbered before parse_nested_numbered consumed it
C28_Witness ==
    /\ pc = "Ok"
    /\ Len(events) >= 3
    /\ IsStart(events[1], "List")
    /\ stream = Len(events)
    /\ Len(LinksOf(Unwrap(summary).numbered_chapters)) > 0


\* ------------------------------------------------------------------------
\* book/summary.rs: parse_numbered skips the contents of other tags
\* ------------------------------------------------------------------------

\* how many more starts than ends of the tag of events[p] lie in events[p..j]
RECURSIVE Open(_, _)
Open(p, j) ==
    IF j < p THEN 0
    ELSE Open(p, j - 1)
         + (IF SameTag(events[j], events[p])
            THEN (IF events[j].type = "Start" THEN 1
                  ELSE IF events[j].type = "End" THEN -1 ELSE 0)
            ELSE 0)

\* the position of the end tag that matches the start tag at p, the tag being
\* balanced from there; the end of the stream if there is none
MatchingEnd(p) ==
    LET closes == {j \in (p + 1)..Len(events) : Open(p, j) = 0}
    IN  IF closes = {} THEN Len(events) ELSE CHOOSE j \in closes : \A i \in closes : j <= i

\* the position of the first end tag behind p that equals the start tag at p;
\* the end of the stream if there is none
FirstEnd(p) ==
    LET ends == {j \in (p + 1)..Len(events) :
                    events[j].type = "End" /\ SameTag(events[j], events[p])}
    IN  IF ends = {} THEN Len(events) ELSE CHOOSE j \in ends : \A i \in ends : j <= i

Skipping == pc = "skip"

\* C29 as stated: after the start of an unsupported tag in a numbered block, no
\* event up to and including the tag's matching, balanced end tag contributes an
\* item, and parsing resumes with the event that follows the matching end
C29_SkipsToMatchingEnd ==
    [][Skipping =>
        /\ UNCHANGED <<items, levels, parts, root_items>>
        /\ stream' <= MatchingEnd(skip_start)
        /\ ~Skipping' => (pc' = "parse_numbered" /\ stream' = MatchingEnd(skip_start))]_vars

\* C29, what the code does: the loop skips up to and including the first end tag
\* that equals the start tag, or to the end of the stream, and parse_numbered
\* resumes behind it; nothing that is skipped contributes an item
C29_SkipsToFirstEnd ==
    [][Skipping =>
        /\ UNCHANGED <<items, levels, parts, root_items>>
        /\ events[skip_start].type = "Start"
        /\ SameTag(events[skip_start], Unwrap(other_tag))
        /\ stream' <= FirstEnd(skip_start)
        /\ ~Skipping' => (pc' = "parse_numbered" /\ stream' = FirstEnd(skip_start))]_vars

\* a block quote that holds a list has been skipped up to its end, which is
\* both the first and the matching one
C29_Witness ==
    /\ pc = "parse_numbered"
    /\ stream > 2
    /\ IsEnd(events[stream], "BlockQuote")
    /\ \E p \in 1..(stream - 1) :
         /\ IsStart(events[p], "BlockQuote")
         /\ MatchingEnd(p) = stream
         /\ FirstEnd(p) = stream
         /\ \E q \in p..stream : IsStart(events[q], "Link")


\* ------------------------------------------------------------------------
\* book/summary.rs: the list items of the numbered section in the Summary
\* ------------------------------------------------------------------------

\* how many lists are open behind the event at position i
ListDepth(i) ==
    Cardinality({j \in 1..i : IsStart(events[j], "List")})
    - Cardinality({j \in 1..i : IsEnd(events[j], "List")})

\* the event at position i starts the hyperlink of a list item
IsItemLink(i) ==
    /\ i > 1
    /\ IsStart(events[i], "Link")
    /\ \/ IsStart(events[i - 1], "Item")
       \/ i > 2 /\ IsStart(events[i - 1], "Paragraph") /\ IsStart(events[i - 2], "Item")

\* the hyperlink list items of the stream in source order: location and depth
RECURSIVE SourceItemsUpTo(_)
SourceItemsUpTo(i) ==
    IF i = 0 THEN << >>
    ELSE SourceItemsUpTo(i - 1)
         \o (IF IsItemLink(i)
             THEN <<[location |-> IF events[i].s = << >> THEN None
                                  ELSE Some(Unescape(events[i].s)),
                     depth |-> ListDepth(i)]>>
             ELSE << >>)

SourceItems == SourceItemsUpTo(Len(events))

\* the Links of a tree of SummaryItems, depth first: location and depth
RECURSIVE TreeItems(_, _)
TreeItems(its, depth) ==
    IF its = << >> THEN << >>
    ELSE (IF Head(its).kind = "Link"
          THEN <<[location |-> Head(its).location, depth |-> depth]>>
               \o TreeItems(Head(its).nested_items, depth + 1)
          ELSE << >>)
         \o TreeItems(Tail(its), depth)

\* every tag of the stream is closed in turn, list items lie in lists, and no
\* block quote is skipped
WellFormedLists ==
    /\ \A i \in 1..Len(events) :
         /\ ListDepth(i) >= 0
         /\ events[i].tag # "BlockQuote"
         /\ IsStart(events[i], "Item") => ListDepth(i) > 0
    /\ ListDepth(Len(events)) = 0

\* a list item holds two lists: a list ends and another begins in the same item
TwoListsInOneItem ==
    \E i \in 1..(Len(events) - 1) :
        /\ IsEnd(events[i], "List")
        /\ IsStart(events[i + 1], "List")
        /\ ListDepth(i) > 0

\* C30 as stated: every hyperlink list item of the numbered section is in the
\* Summary tree exactly once, in source order, at the depth of its list, also
\* when a list item holds more than one nested list
C30_EveryItemOnce ==
    (pc = "Ok" /\ WellFormedLists) =>
        TreeItems(Unwrap(summary).numbered_chapters, 1) = SourceItems

\* C30, what the code does: that holds as long as no list item holds two lists
C30_EveryItemOnceInSingleLists ==
    (pc = "Ok" /\ WellFormedLists /\ ~TwoListsInOneItem) =>
        TreeItems(Unwrap(summary).numbered_chapters, 1) = SourceItems

\* a Summary with a link nested two levels below another has been returned
C30_Witness ==
    /\ pc = "Ok"
    /\ WellFormedLists
    /\ ~TwoListsInOneItem
    /\ Len(SourceItems) = 4
    /\ \E i \in 1..4 : SourceItems[i].depth = 3


\* ------------------------------------------------------------------------
\* book/summary.rs: the paragraphs that follow the numbered section
\* ------------------------------------------------------------------------

\* the text is a document: a stream of well-formed Markdown blocks
IsDocument == DocumentInput(src, events)

\* the position of the heading parse_title takes as the title of the book, or 0
TitleAt ==
    LET seen == {p \in 1..Len(events) : events[p].type # "Html"}
    IN  IF seen = {} THEN 0
        ELSE LET p == CHOOSE q \in seen : \A r \in seen : q <= r
             IN  IF IsStart(events[p], "H1") THEN p ELSE 0

\* the position of the part title or list with which the numbered section
\* begins, or 0
NumberedStart ==
    LET begins == {p \in 1..Len(events) :
                      /\ p # TitleAt
                      /\ IsStart(events[p], "List") \/ IsStart(events[p], "H1")}
    IN  IF begins = {} THEN 0 ELSE CHOOSE q \in begins : \A r \in begins : q <= r

\* the start of the paragraph that holds position i, or 0
ParagraphOf(i) ==
    LET starts == {q \in 1..i : IsStart(events[q], "Paragraph")}
    IN  IF starts = {} THEN 0 ELSE CHOOSE q \in starts : \A r \in starts : r <= q

\* the paragraph that holds position i directly follows a heading
FollowsHeading(i) ==
    ParagraphOf(i) > 1 /\ IsEnd(events[ParagraphOf(i) - 1], "H1")

\* position i starts a link of a top-level paragraph behind the start of the
\* numbered section
IsLateParagraphLink(i) ==
    /\ NumberedStart > 0
    /\ i > NumberedStart
    /\ IsStart(events[i], "Link")
    /\ ListDepth(i) = 0
    /\ ParagraphOf(i) > NumberedStart

\* the locations of those links in source order, with or without the links of
\* paragraphs that directly follow a part title
RECURSIVE LateLinksUpTo(_, _)
LateLinksUpTo(i, all) ==
    IF i = 0 THEN << >>
    ELSE LateLinksUpTo(i - 1, all)
         \o (IF IsLateParagraphLink(i) /\ (all \/ ~FollowsHeading(i))
             THEN <<IF events[i].s = << >> THEN None ELSE Some(Unescape(events[i].s))>>
             ELSE << >>)

\* the locations of the Links of a list of SummaryItems
RECURSIVE LinkLocations(_)
LinkLocations(its) ==
    IF its = << >> THEN << >>
    ELSE (IF Head(its).kind = "Link" THEN <<Head(its).location>> ELSE << >>)
         \o LinkLocations(Tail(its))

\* C31 as stated: once the numbered section has begun, every link of a
\* top-level paragraph becomes exactly one suffix Link, in source order, also in
\* a paragraph that directly follows a part title
C31_ParagraphLinksAreSuffix ==
    (pc = "Ok" /\ IsDocument) =>
        LinkLocations(Unwrap(summary).suffix_chapters) = LateLinksUpTo(Len(events), TRUE)

\* C31, what the code does: the links of a paragraph that directly follows a part
\* title are skipped, every other link of a top-level paragraph behind the start
\* of the numbered section becomes exactly one suffix Link, in source order
C31_ParagraphLinksAreSuffixUnlessTitled ==
    (pc = "Ok" /\ IsDocument) =>
        LinkLocations(Unwrap(summary).suffix_chapters) = LateLinksUpTo(Len(events), FALSE)

\* a Summary whose suffix holds the links of a paragraph behind a list
C31_Witness ==
    /\ pc = "Ok"
    /\ IsDocument
    /\ \E i \in 1..Len(events) :
          /\ IsLateParagraphLink(i)
          /\ ~FollowsHeading(i)
          /\ IsEnd(events[ParagraphOf(i) - 1], "List")
    /\ Len(LinkLocations(Unwrap(summary).suffix_chapters)) = 2


\* ------------------------------------------------------------------------
\* book/book.rs: the order of the steps of load_book
\* ------------------------------------------------------------------------

\* no chapter file has been created or opened and there is no Book
FilesUntouched == disk0 = << >> /\ disk = << >> /\ opened = << >> /\ book = None

IsConstruct(event) ==
    \/ event.tag \in DOMAIN HeadingLevels
    \/ event.tag = "Paragraph"
    \/ event.tag \in DOMAIN LinkTypes /\ LinkTypes[event.tag] = "Inline"

\* the name current_tag has for the construct of the event
ConstructName(event) ==
    IF event.tag \in DOMAIN HeadingLevels THEN Heading
    ELSE IF event.tag = "Paragraph" THEN Paragraph
    ELSE LinkTag

\* the constructs that are open behind the first n events handed to the loop,
\* outermost first
RECURSIVE OpenConstructs(_)
OpenConstructs(n) ==
    IF n = 0 THEN << >>
    ELSE LET open == OpenConstructs(n - 1)
             event == Handed[n]
         IN  IF event.type = "Start" /\ IsConstruct(event)
             THEN Append(open, ConstructName(event))
             ELSE IF event.type = "End" /\ IsConstruct(event) /\ open # << >>
             THEN SubSeq(open, 1, Len(open) - 1)
             ELSE open

\* the name of the construct opened last among the first n events, closed or
\* not; the empty string when none was opened
RECURSIVE LastOpened(_)
LastOpened(n) ==
    IF n = 0 THEN << >>
    ELSE IF Handed[n].type = "Start" /\ IsConstruct(Handed[n])
    THEN ConstructName(Handed[n])
    ELSE LastOpened(n - 1)

\* C33 as stated: at every point of the transpiled sequence current_tag names
\* the innermost heading, paragraph or inline link that is open, and is empty
\* when none is open
C33_CurrentTagIsInnermostOpen ==
    LET open == OpenConstructs(transpiled)
    IN  current_tag = IF open = << >> THEN << >> ELSE open[Len(open)]

\* C33, what the code does: current_tag names the heading, paragraph or inline
\* link that was opened last, whether it has been closed or not; the text
\* behind the end of an inline link is emitted in brackets as a link label
C33_CurrentTagIsLastOpened ==
    /\ current_tag = LastOpened(transpiled)
    /\ (/\ transpiled >= 2
        /\ Handed[transpiled].type = "Text"
        /\ IsEnd(Handed[transpiled - 1], "Link")
        /\ current_tag = LinkTag)
          => parsed_str = <<"[">> \o Handed[transpiled].s \o <<"]">>

\* the text behind the link in the middle of a paragraph has been transpiled:
\* the paragraph is the innermost open construct, current_tag is the link
C33_Witness ==
    /\ transpiled >= 2
    /\ Handed[transpiled].type = "Text"
    /\ IsEnd(Handed[transpiled - 1], "Link")
    /\ OpenConstructs(transpiled) = <<Paragraph>>
    /\ current_tag = LinkTag
    /\ parsed_str = <<"[", "too", "]">>


\* whether the last start, text or end event among the first n events handed to
\* the loop is a start; FALSE when there is none
RECURSIVE LastMarkIsStart(_)
LastMarkIsStart(n) ==
    IF n = 0 THEN FALSE
    ELSE IF Handed[n].type \in {"Start", "Text", "End"} THEN Handed[n].type = "Start"
    ELSE LastMarkIsStart(n - 1)

\* C34 as stated: after each event of the transpiled sequence tag_started is
\* true exactly when that event is a start event
C34_StartedIffStartEvent ==
    transpiled > 0 => (tag_started <=> Handed[transpiled].type = "Start")

\* C34, what the code does: tag_started is true after a start event and false
\* after a text or end event; every other event (soft break, inline code, raw
\* HTML, ...) leaves it as it was
C34_StartedIffLastMarkIsStart ==
    tag_started <=> LastMarkIsStart(transpiled)

\* a soft break behind a start event has been transpiled and tag_started is
\* still true
C34_Witness ==
    /\ transpiled = 2
    /\ Handed[1].type = "Start"
    /\ Handed[2] = SoftBreak
    /\ tag_started


\* ------------------------------------------------------------------------
\* utils/mod.rs: images in render_markdown_with_path
\* ------------------------------------------------------------------------

\* a occurs in b as a run of consecutive pieces
IsInfix(a, b) ==
    \E k \in 0..(Len(b) - Len(a)) : SubSeq(b, k + 1, k + Len(a)) = a

\* the image-embed block render_to_docsite formats for an image with this URL
ImageBlock(url) == render_to_docsite(StartImage(url), << >>, FALSE).result_str

\* the loop takes an event, and the event is the start of an image
ImageStep ==
    /\ transpiled' = transpiled + 1
    /\ IsStart(Handed[transpiled + 1], "Image")

\* the loop takes the event behind the start of an image
AfterImageStep ==
    /\ transpiled >= 1
    /\ transpiled' = transpiled + 1
    /\ IsStart(Handed[transpiled], "Image")

\* C35 as stated: the step that processes an image start appends the image block
\* to the output and leaves current_tag, tag_started and the pending buffer as
\* they were
C35_ImageEmittedAtOnce ==
    [][ImageStep =>
         /\ Len(rendered_docsite') > Len(rendered_docsite)
         /\ SubSeq(rendered_docsite', 1, Len(rendered_docsite)) = rendered_docsite
         /\ IsInfix(ImageBlock(Handed[transpiled + 1].s),
                    SubSeq(rendered_docsite', Len(rendered_docsite) + 1,
                           Len(rendered_docsite')))
         /\ current_tag' = current_tag
         /\ tag_started' = tag_started
         /\ tag_parsed_string' = tag_parsed_string]_vars

\* C35, what the code does: the step that processes an image start leaves the
\* output and current_tag as they were, sets tag_started and replaces the pending
\* buffer by the image block; the block reaches the output with the next event
\* when that is a text or an end event, and is replaced in the pending buffer,
\* the output unchanged, by what any other event yields
C35_ImagePending ==
    /\ [][ImageStep =>
            /\ rendered_docsite' = rendered_docsite
            /\ current_tag' = current_tag
            /\ tag_started'
            /\ tag_parsed_string' = ImageBlock(Handed[transpiled + 1].s)]_vars
    /\ [][AfterImageStep =>
            IF Handed[transpiled + 1].type \in {"Text", "End"}
            THEN /\ rendered_docsite' = rendered_docsite
                        \o Assemble(current_tag, parsed_str', ImageBlock(Handed[transpiled].s))
                 /\ tag_parsed_string' = << >>
            ELSE /\ rendered_docsite' = rendered_docsite
                 /\ tag_parsed_string' = parsed_str']_vars

\* the alternative text behind the start of an image has been transpiled, and
\* the output holds the image block
C35_Witness ==
    /\ transpiled >= 2
    /\ IsStart(Handed[transpiled - 1], "Image")
    /\ Handed[transpiled - 1].s = Picture
    /\ Handed[transpiled].type = "Text"
    /\ IsInfix(<<"-- ds.image: \n                src: $assets.files", "img", ".png",
                 "\n                align: center">>, rendered_docsite)


\* ------------------------------------------------------------------------
\* utils/mod.rs: what becomes of the strings render_to_docsite returns
\* ------------------------------------------------------------------------

\* render_to_docsite applied to the events one after the other, each call with
\* the current_tag and tag_started the call before it returned: the last
\* current_tag and tag_started, and for every event its (result_str, current_tag,
\* tag_started)
RECURSIVE Rendered(_)
Rendered(evs) ==
    IF evs = << >> THEN [tag |-> << >>, started |-> FALSE, calls |-> << >>]
    ELSE LET before == Rendered(SubSeq(evs, 1, Len(evs) - 1))
             r == render_to_docsite(evs[Len(evs)], before.tag, before.started)
         IN  [tag |-> r.current_tag, started |-> r.tag_started,
              calls |-> Append(before.calls, r)]

Emissions == Rendered(Handed).calls

\* the string of event i is in the pending buffer when the loop is left or when
\* the next event replaces the buffer
Dropped(i) ==
    /\ Emissions[i].tag_started
    /\ i = Len(Emissions) \/ Emissions[i + 1].tag_started

\* what the loop appends to the output for event i
Appended(i) ==
    IF Emissions[i].tag_started THEN << >>
    ELSE Assemble(Emissions[i].current_tag, Emissions[i].result_str,
                  IF i > 1 /\ Emissions[i - 1].tag_started
                  THEN Emissions[i - 1].result_str ELSE << >>)

WithoutNewlines(str) == SelectSeq(str, LAMBDA piece : piece # "\n")

Occurrences(piece, str) == Cardinality({i \in 1..Len(str) : str[i] = piece})

\* a and b hold the same pieces, each as often
SamePieces(a, b) ==
    /\ Len(a) = Len(b)
    /\ \A i \in 1..Len(a) : Occurrences(a[i], a) = Occurrences(a[i], b)

\* C36 as stated: the strings computed for the events are all in the returned
\* output, each exactly once: beside the newlines the output holds the pieces of
\* every emission and nothing else
C36_EveryEmissionOnce ==
    pc = "render_markdown_returned" =>
        SamePieces(WithoutNewlines(rendered_docsite),
                   Concat([i \in 1..Len(Emissions) |-> Emissions[i].result_str]))

\* C36, what the code does: the returned output is, in event order, what the
\* loop appends for the events that leave tag_started false: the string of the
\* event assembled with the string of the event before it when that left
\* tag_started true.  The string of an event that leaves tag_started true is in
\* the output only if the next event leaves it false: it is dropped when the
\* next event is a start event or leaves tag_started as it is, and at the end of
\* the stream
C36_EmissionsKeptOrDropped ==
    pc = "render_markdown_returned" =>
        /\ rendered_docsite = Concat([i \in 1..Len(Emissions) |-> Appended(i)])
        /\ SamePieces(WithoutNewlines(rendered_docsite),
                      Concat([i \in 1..Len(Emissions) |->
                                 IF Dropped(i) THEN << >> ELSE Emissions[i].result_str]))

\* the sample chapter has been transpiled: the opener of the paragraph that
\* begins with an image was dropped, the opener of the paragraph that begins
\* with a text is in the output
C36_Witness ==
    /\ pc = "render_markdown_returned"
    /\ md_events = SampleChapter
    /\ Emissions[11].result_str = <<"-- ds.markdown: ">>
    /\ Dropped(11)
    /\ ~Dropped(4)
    /\ Occurrences("-- ds.markdown: ", rendered_docsite) = 1


\* ------------------------------------------------------------------------
\* utils/mod.rs: links in render_markdown_with_path
\* ------------------------------------------------------------------------

\* the destination without its pieces ".ftd"
RECURSIVE WithoutFtd(_)
WithoutFtd(url) ==
    IF url = << >> THEN << >>
    ELSE (IF Head(url) = ".ftd" THEN << >> ELSE <<Head(url)>>) \o WithoutFtd(Tail(url))

\* the reference emitted for an inline link
Reference(url) == <<"(/">> \o WithoutFtd(url) \o <<"/)">>

\* the loop takes an event, and the event is the start of a link with this tag
LinkStep(tags) ==
    /\ transpiled' = transpiled + 1
    /\ Handed[transpiled + 1].type = "Start"
    /\ Handed[transpiled + 1].tag \in tags

\* the loop takes a text event right behind the start of an inline link
LabelStep ==
    /\ transpiled >= 1
    /\ transpiled' = transpiled + 1
    /\ IsStart(Handed[transpiled], "Link")
    /\ Handed[transpiled + 1].type = "Text"

\* C37: for the start of an inline link with destination u the string returned
\* is '(/' + u without '.ftd' + '/)' and current_tag becomes link; the text t
\* that follows is put into the output as '[t]' in front of that reference; for
\* the start of a link of another type the string is empty and current_tag is
\* unchanged
C37_InlineLinks ==
    /\ [][LinkStep({"Link"}) =>
            /\ parsed_str' = Reference(Handed[transpiled + 1].s)
            /\ current_tag' = <<"link">>]_vars
    /\ [][LabelStep =>
            rendered_docsite' = rendered_docsite
                \o <<"[">> \o Handed[transpiled + 1].s \o <<"]">>
                \o Reference(Handed[transpiled].s) \o <<"\n">>]_vars
    /\ [][LinkStep({"LinkAutolink", "LinkReference"}) =>
            /\ parsed_str' = << >>
            /\ current_tag' = current_tag]_vars

\* the label of the link to other.md, rewritten to other.ftd, is in the output
\* in front of the reference (/other/)
C37_Witness ==
    /\ md_events = SampleChapter
    /\ md_path = None
    /\ transpiled = 7
    /\ Handed[6] = StartLink(<<"other", ".ftd">>)
    /\ current_tag = <<"link">>
    /\ Len(rendered_docsite) >= 7
    /\ SubSeq(rendered_docsite, Len(rendered_docsite) - 6, Len(rendered_docsite))
         = <<"[", "other", "]", "(/", "other", "/)", "\n">>


\* ------------------------------------------------------------------------
\* utils/mod.rs: the wrappers of tables
\* ------------------------------------------------------------------------

WrapperOpen == Html(<<"<div class=\"table-wrapper\">">>)
WrapperClose == Html(<<"</div>">>)

\* how many of the events satisfy the test
HowMany(evs, Test(_)) == Cardinality({p \in 1..Len(evs) : Test(evs[p])})

\* C38: in the events handed to the loop every table start directly follows a
\* wrapper-open event and every table end is directly followed by a wrapper-close
\* event, there are as many wrapper events as table starts and table ends, and
\* without the wrapper events the sequence is the sequence of the events that
\* came out of adjust_links, unchanged and in order
C38_TablesWrapped ==
    /\ \A p \in 1..Len(Handed) :
         /\ IsStart(Handed[p], "Table") => (p > 1 /\ Handed[p - 1] = WrapperOpen)
         /\ IsEnd(Handed[p], "Table") => (p < Len(Handed) /\ Handed[p + 1] = WrapperClose)
    /\ HowMany(Handed, LAMBDA e : e = WrapperOpen)
         = HowMany(Handed, LAMBDA e : IsStart(e, "Table"))
    /\ HowMany(Handed, LAMBDA e : e = WrapperClose)
         = HowMany(Handed, LAMBDA e : IsEnd(e, "Table"))
    /\ SelectSeq(Handed, LAMBDA e : e \notin {WrapperOpen, WrapperClose})
         = SubSeq(adjusted, 1, Len(wrapped))

\* the table of the sample chapter has passed wrap_tables
C38_Witness ==
    /\ md_events = SampleChapter
    /\ Len(wrapped) = Len(md_events)
    /\ Len(Handed) = Len(md_events) + 2
    /\ Handed[16] = WrapperOpen
    /\ Handed[17] = StartTable
    /\ Handed[20] = EndTable
    /\ Handed[21] = WrapperClose


\* ------------------------------------------------------------------------
\* renderer/hbs_renderer.rs: the index of the render pass
\* ------------------------------------------------------------------------

\* the file names the render pass writes for the non-draft chapters in this
\* order: for each its own file, and index.ftd behind that of the first
WrittenFor(chapters) ==
    Concat([i \in 1..Len(chapters) |->
               <<with_extension(Unwrap(chapters[i].path), ".ftd")>>
               \o (IF i = 1 THEN <<IndexFtd>> ELSE << >>)])

\* the render pass is in its loop, or has left it
InRenderPass == pc \in {"render", "rendered", "render_err"}

\* is_index is true until the first non-draft chapter has been rendered, false
\* from then on, and the items before that chapter leave it true
IndexFlag ==
    /\ [](pc \in {"render", "rendered"} => (is_index <=> ChapterPieces = << >>))
    /\ [][(pc = "render" /\ ~is_index) => ~is_index']_vars
    /\ [][(pc = "render" /\ pc' = "render" /\ is_index /\ ~NonDraft(Head(queue)))
              => is_index']_vars
    /\ [][(pc = "render" /\ pc' = "render" /\ NonDraft(Head(queue))) => ~is_index']_vars

\* C39 as stated: the first non-draft chapter of the pass is rendered as the
\* index, index.ftd is written exactly once, behind the file of that chapter,
\* every later chapter is rendered with is_index false, and the flag never
\* becomes true again
C39_IndexWrittenOnce ==
    /\ IndexFlag
    /\ [](InRenderPass => Occurrences(IndexFtd, written) <= 1)
    /\ []((pc = "rendered" /\ NonDraftChapters(Unwrap(book)) # << >>) =>
            /\ Occurrences(IndexFtd, written) = 1
            /\ written[1] = with_extension(Unwrap(NonDraftChapters(Unwrap(book))[1].path), ".ftd")
            /\ written[2] = IndexFtd)

\* C39, what the code does: the flag is as stated, and a pass that ends has
\* written for each non-draft chapter, in the order of Book::iter(), its own
\* file, and index.ftd once more behind the file of the first; a chapter whose
\* path is index.md has index.ftd as its own file, so that index.ftd is then
\* written a second time
C39_IndexFromFirstChapter ==
    /\ IndexFlag
    /\ [](InRenderPass =>
            \E n \in 0..Len(NonDraftChapters(Unwrap(book))) :
                written = WrittenFor(SubSeq(NonDraftChapters(Unwrap(book)), 1, n)))
    /\ [](pc = "rendered" => written = WrittenFor(NonDraftChapters(Unwrap(book))))

\* a pass has ended over a book whose first non-draft chapter comes behind a part
\* title and has a draft chapter and a further chapter behind it
C39_Witness ==
    /\ pc = "rendered"
    /\ ~is_index
    /\ Unwrap(book).sections[1].kind = "PartTitle"
    /\ Len(NonDraftChapters(Unwrap(book))) >= 2
    /\ Len(ChaptersOf(Unwrap(book).sections)) > Len(NonDraftChapters(Unwrap(book)))
    /\ Occurrences(IndexFtd, written) = 1
    /\ written[2] = IndexFtd


\* ------------------------------------------------------------------------
\* book/mod.rs: determine_preprocessors
\* ------------------------------------------------------------------------

MaxDeps == 3        \* most 'before' and 'after' entries of a generated configuration

DEFAULT_PREPROCESSORS == {"links", "index"}

\* the names of the generated preprocessor tables and of their entries
TableNames == {"a", "b", "links"}

\* the order of the names as strings
Rank == [a |-> 1, b |-> 2, index |-> 3, links |-> 4]

\* names.sort(), and the order in which a table is iterated
RECURSIVE Sorted(_)
Sorted(names) ==
    IF names = {} THEN << >>
    ELSE LET least == CHOOSE n \in names : \A m \in names : Rank[n] <= Rank[m]
         IN  <<least>> \o Sorted(names \ {least})

\* the subsets of S with at most k elements
RECURSIVE SubsetsUpTo(_, _)
SubsetsUpTo(S, k) ==
    IF k = 0 THEN {{}}
    ELSE LET smaller == SubsetsUpTo(S, k - 1)
         IN  smaller \cup {x \cup {e} : x \in smaller, e \in S}

\* the configurations: whether the default preprocessors are used, and the table
\* [preprocessor]: for each of its names the arrays before and after, as sets
Configs ==
    {[use_default_preprocessors |-> d,
      preprocessor |-> [n \in ns |-> [before |-> {e[3] : e \in {x \in es : x[1] = n /\ x[2] = "before"}},
                                      after |-> {e[3] : e \in {x \in es : x[1] = n /\ x[2] = "after"}}]]] :
        d \in BOOLEAN, ns \in SUBSET TableNames,
        es \in SubsetsUpTo(TableNames \X {"before", "after"} \X TableNames, MaxDeps)}

\* TopologicalSort::insert
insert(top, name) ==
    IF name \in DOMAIN top THEN top ELSE top @@ (name :> [num_prec |-> 0, succ |-> {}])

\* TopologicalSort::add_dependency(prec, succ); a dependency that is registered
\* already changes nothing
add_dependency(top, prec, succ) ==
    IF prec \in DOMAIN top /\ succ \in top[prec].succ THEN top
    ELSE LET with_succ == IF prec \in DOMAIN top
                          THEN [top EXCEPT ![prec].succ = @ \cup {succ}]
                          ELSE top @@ (prec :> [num_prec |-> 0, succ |-> {succ}])
         IN  IF succ \in DOMAIN with_succ
             THEN [with_succ EXCEPT ![succ].num_prec = @ + 1]
             ELSE with_succ @@ (succ :> [num_prec |-> 1, succ |-> {}])

\* TopologicalSort::pop_all: the names nothing depends on any more, and the
\* sort without them, their successors having one predecessor less for each
pop_all(top) ==
    LET keys == {n \in DOMAIN top : top[n].num_prec = 0}
    IN  [names |-> keys,
         top |-> [n \in DOMAIN top \ keys |->
                     [top[n] EXCEPT !.num_prec =
                         @ - Cardinality({m \in keys : n \in top[m].succ})]]]

\* the closure exists that takes every name for the name of a preprocessor
exists_always(cfg, name) == TRUE

\* the closure exists of determine_preprocessors
preprocessor_exists(cfg, name) ==
    \/ cfg.use_default_preprocessors /\ name \in DEFAULT_PREPROCESSORS
    \/ name \in DOMAIN cfg.preprocessor

\* the dependencies added for the arrays of one table entry, one name after
\* the other
RECURSIVE add_dependencies(_, _, _, _, _)
add_dependencies(top, cfg, name, others, is_before) ==
    IF others = {} THEN top
    ELSE LET other == CHOOSE o \in others : \A q \in others : Rank[o] <= Rank[q]
             next == IF ~preprocessor_exists(cfg, other) THEN top
                     ELSE IF is_before THEN add_dependency(top, name, other)
                     ELSE add_dependency(top, other, name)
         IN  add_dependencies(next, cfg, name, others \ {other}, is_before)

CyclicError == "Cyclic dependency detected in preprocessors"

\* determine_preprocessors is called with a configuration
PreInit ==
    /\ \E cfg \in Configs : config = Some(cfg)
    /\ preprocessor_names = << >>
    /\ table_iter = 0
    /\ preprocessors = << >>
    /\ determined = None
    /\ TlAtRest
    /\ IdAtRest
    /\ MainAtRest
    /\ runs = << >>
    /\ AtRest("determine_preprocessors")
    /\ MdAtRest

\* the default preprocessors are inserted when they are used
InsertDefaults ==
    /\ pc = "determine_preprocessors"
    /\ preprocessor_names' =
         IF Unwrap(config).use_default_preprocessors
         THEN insert(insert(preprocessor_names, "links"), "index")
         ELSE preprocessor_names
    /\ pc' = "preprocessor_table"
    /\ UNCHANGED <<config, table_iter, preprocessors, determined>>
    /\ UNCHANGED <<src, events, stream, offset, back, title, prefix_chapters,
                   numbered_chapters, suffix_chapters, parts, root_items, part_title,
                   items, first, other_tag, skip_start, levels, summary, err>>
    /\ UNCHANGED <<bookVars, renderVars, mdVars, tlVars, idVars, mainVars, runs>>

\* one iteration of the loop over the preprocessor table, or its end
TableEntry ==
    /\ pc = "preprocessor_table"
    /\ LET table == Unwrap(config).preprocessor
           names == Sorted(DOMAIN table)
       IN  IF table_iter = Len(names)
           THEN /\ pc' = "pop_all"
                /\ UNCHANGED <<preprocessor_names, table_iter>>
           ELSE LET name == names[table_iter + 1]
                    inserted == insert(preprocessor_names, name)
                    before == add_dependencies(inserted, Unwrap(config), name,
                                               table[name].before, TRUE)
                IN  /\ preprocessor_names' =
                         add_dependencies(before, Unwrap(config), name,
                                          table[name].after, FALSE)
                    /\ table_iter' = table_iter + 1
                    /\ UNCHANGED pc
    /\ UNCHANGED <<config, preprocessors, determined>>
    /\ UNCHANGED <<src, events, stream, offset, back, title, prefix_chapters,
                   numbered_chapters, suffix_chapters, parts, root_items, part_title,
                   items, first, other_tag, skip_start, levels, summary, err>>
    /\ UNCHANGED <<bookVars, renderVars, mdVars, tlVars, idVars, mainVars, runs>>

\* one round of the loop over pop_all: the names are sorted and pushed; an
\* empty round ends the loop and determine_preprocessors returns
PopAll ==
    /\ pc = "pop_all"
    /\ LET popped == pop_all(preprocessor_names)
       IN  /\ preprocessor_names' = popped.top
           /\ IF popped.names # {}
              THEN /\ preprocessors' = preprocessors \o Sorted(popped.names)
                   /\ UNCHANGED <<pc, determined>>
              ELSE /\ determined' = IF preprocessor_names = << >>
                                    THEN Some([ok |-> TRUE, val |-> preprocessors])
                                    ELSE Some([ok |-> FALSE, val |-> CyclicError])
                   /\ pc' = "determined"
                   /\ UNCHANGED preprocessors
    /\ UNCHANGED <<config, table_iter>>
    /\ UNCHANGED <<src, events, stream, offset, back, title, prefix_chapters,
                   numbered_chapters, suffix_chapters, parts, root_items, part_title,
                   items, first, other_tag, skip_start, levels, summary, err>>
    /\ UNCHANGED <<bookVars, renderVars, mdVars, tlVars, idVars, mainVars, runs>>

PreNext ==
    \/ InsertDefaults
    \/ TableEntry
    \/ PopAll

PreSpec == PreInit /\ [][PreNext]_vars

\* the preprocessors that are configured: those of the table, and the default
\* ones when they are used
Configured ==
    DOMAIN Unwrap(config).preprocessor
        \cup (IF Unwrap(config).use_default_preprocessors THEN {"links", "index"} ELSE {})

\* the pairs (p, s) for which an entry asks that p runs before s, both configured
Constraints ==
    LET table == Unwrap(config).preprocessor
    IN  {c \in Configured \X Configured :
            \/ c[1] \in DOMAIN table /\ c[2] \in table[c[1]].before
            \/ c[2] \in DOMAIN table /\ c[1] \in table[c[2]].after}

\* s can be reached from p along at most n constraints, at least one
RECURSIVE Reaches(_, _, _)
Reaches(p, s, n) ==
    /\ n > 0
    /\ \/ <<p, s>> \in Constraints
       \/ \E m \in Configured : <<p, m>> \in Constraints /\ Reaches(m, s, n - 1)

HasCycle == \E n \in Configured : Reaches(n, n, Cardinality(Configured))

Position(name) == CHOOSE i \in 1..Len(preprocessors) : preprocessors[i] = name

====
